---- MODULE Spec2Model ----
(***************************************************************************)
(* The crawl frontier and the identity index of dokkaninfoBS4scraper.py:   *)
(* main() walking the paginated card index, the per-card and related-card  *)
(* loops, write_card_outputs_and_update_index(), load_index() and          *)
(* save_index().  Strings are sequences of tokens; a URL is the sequence   *)
(* BASE_URL, "/cards/", then the characters of the rest of the href.       *)
(***************************************************************************)
EXTENDS Integers, Sequences, FiniteSets, TLC

(* ------------------------------ bounds -------------------------------- *)
\* MAX_PAGES_TO_SCRAPE (200 in the source, line 33), scaled down.
MAX_PAGES_TO_SCRAPE == 2
\* MAX_NEW_CARDS_TO_SAVE (10 in the source, line 34), scaled down.
MAX_NEW_CARDS_TO_SAVE == 3
\* Card links the container of one index page holds, at most.
MaxLinks == 2
\* col-5 tiles of a card page's header row, at most (the first is the card itself).
MaxTiles == 2
\* Characters (or whole words) of a page text handed to _split_sections, at most.
MaxText == 5
\* Characters of a text handed to _dedup_sentences, at most.
MaxSentenceText == 6
\* Entries of a list handed to a list cleaner (link skills, categories, image
\* sources, domain blocks), at most.
MaxListLen == 3
\* div.row elements of a card page handed to parse_eza_info, at most.
MaxRows == 2
\* Value cells of a row of the stats table, at most.
MaxCells == 4
\* Parameters of the query of a URL handed to build_next_index_url, at most.
MaxParams == 3

(* ------------------------------ strings -------------------------------- *)
Digits == {"0", "1", "2", "3", "4", "5", "6", "7", "8", "9"}

IsDigit(c) == c \in Digits

DigitVal(c) ==
  CASE c = "0" -> 0 [] c = "1" -> 1 [] c = "2" -> 2 [] c = "3" -> 3
    [] c = "4" -> 4 [] c = "5" -> 5 [] c = "6" -> 6 [] c = "7" -> 7
    [] c = "8" -> 8 [] c = "9" -> 9

DigitChar(n) ==
  CASE n = 0 -> "0" [] n = 1 -> "1" [] n = 2 -> "2" [] n = 3 -> "3"
    [] n = 4 -> "4" [] n = 5 -> "5" [] n = 6 -> "6" [] n = 7 -> "7"
    [] n = 8 -> "8" [] n = 9 -> "9"

\* Python's None, and the "unknown" bucket name of line 1100.
None == <<"None">>
Unknown == <<"unknown">>

BASE_URL == "https://dokkaninfo.com"

\* The least element of a non-empty set of integers.
MinOf(S) == CHOOSE x \in S : \A y \in S : x <= y

RECURSIVE StrToInt(_)
\* int(v) for a string of decimal digits.
StrToInt(v) ==
  IF Len(v) = 0 THEN 0
  ELSE 10 * StrToInt(SubSeq(v, 1, Len(v) - 1)) + DigitVal(v[Len(v)])

RECURSIVE IntToStr(_)
\* str(n) for n >= 0.
IntToStr(n) ==
  IF n < 10 THEN <<DigitChar(n)>>
  ELSE Append(IntToStr(n \div 10), DigitChar(n % 10))

\* Whether int(v) succeeds (the query values here hold no sign, blank or underscore).
IsIntString(v) == Len(v) > 0 /\ \A i \in 1..Len(v) : IsDigit(v[i])

(* -------------------------- identity from URL -------------------------- *)
\* The end of the maximal run of digits of url that starts at position i.
DigitRunEnd(url, i) ==
  CHOOSE j \in i..Len(url) :
    /\ \A k \in i..j : IsDigit(url[k])
    /\ (j = Len(url) \/ ~IsDigit(url[j + 1]))

\* CARD_ID_FROM_HREF_PATTERN.search(url): the positions where "/cards/" is
\* followed by a digit.
CardIdMatches(url) ==
  {i \in 1..(Len(url) - 1) : url[i] = "/cards/" /\ IsDigit(url[i + 1])}

extract_character_id_from_url(url) ==
  IF CardIdMatches(url) = {} THEN None
  ELSE LET i == MinOf(CardIdMatches(url))
       IN SubSeq(url, i + 1, DigitRunEnd(url, i + 1))

\* urljoin(BASE_URL, href) for an href that starts with "/".
urljoin(href) == <<BASE_URL>> \o href

\* f"{BASE_URL}/cards/{related_id}" of line 1285.
RelatedUrl(related_id) == <<BASE_URL, "/cards/">> \o related_id

(* ---------------------------- pagination ------------------------------- *)
\* The position of key k in a query (a sequence of <<key, value>> pairs), or 0.
KeyIndex(query, k) ==
  IF \E i \in 1..Len(query) : query[i][1] = k
  THEN MinOf({i \in 1..Len(query) : query[i][1] = k})
  ELSE 0

\* CARDS_INDEX_URL: path /cards with the query sort=open_at.
CARDS_INDEX_URL == [path |-> "/cards", query |-> << <<"sort", <<"open_at">> >> >>]

\* dict(parse_qsl(query, keep_blank_values=True)), line 156: one pair per key,
\* at the place of the key's first occurrence, with the value of its last.
query_dict(query) ==
  LET first == {i \in 1..Len(query) :
                  \A j \in 1..(i - 1) : query[j][1] # query[i][1]}
      last(k) == CHOOSE j \in 1..Len(query) :
                   /\ query[j][1] = k
                   /\ \A m \in (j + 1)..Len(query) : query[m][1] # k
      nth(n) == CHOOSE i \in first : Cardinality({j \in first : j < i}) = n - 1
  IN [n \in 1..Cardinality(first) |->
        <<query[nth(n)][1], query[last(query[nth(n)][1])][2]>>]

\* Whether int(v) succeeds for a query value: digits, with at most one sign
\* before them.
page_is_int(v) ==
  IsIntString(IF Len(v) > 0 /\ v[1] \in {"+", "-"} THEN Tail(v) ELSE v)

\* int(v) of such a value, and str(n).
page_int(v) ==
  IF v[1] = "-" THEN 0 - StrToInt(Tail(v))
  ELSE IF v[1] = "+" THEN StrToInt(Tail(v))
  ELSE StrToInt(v)

page_str(n) == IF n < 0 THEN <<"-">> \o IntToStr(0 - n) ELSE IntToStr(n)

\* Lines 153-165.  urlencode writes the pairs of the dict in their order; the
\* other parts of the URL are put back as they were parsed.
build_next_index_url(current_url) ==
  LET q == query_dict(current_url.query)
      p == KeyIndex(q, "page")
      newq == IF p = 0 THEN Append(q, <<"page", <<"2">> >>)
              ELSE IF page_is_int(q[p][2])
                   THEN [q EXCEPT ![p] = <<"page", page_str(page_int(q[p][2]) + 1)>>]
                   ELSE [q EXCEPT ![p] = <<"page", <<"2">> >>]
  IN [current_url EXCEPT !.query = newq]

(* ------------------------ sequences and dedup -------------------------- *)
\* The elements of a sequence.
Range(s) == {s[i] : i \in 1..Len(s)}

RECURSIVE DedupKeepFirst(_)
\* Order-preserving removal of repeats (a seen-set filled while appending).
DedupKeepFirst(s) ==
  IF Len(s) = 0 THEN <<>>
  ELSE LET front == DedupKeepFirst(SubSeq(s, 1, Len(s) - 1))
       IN IF s[Len(s)] \in Range(front) THEN front ELSE Append(front, s[Len(s)])

\* Sequences over S of length at most n.
SeqsUpTo(S, n) == UNION {[1..k -> S] : k \in 0..n}

\* The elements of s that are in T, in order.
RECURSIVE SelectSeqIn(_, _)
SelectSeqIn(s, T) ==
  IF Len(s) = 0 THEN <<>>
  ELSE IF s[1] \in T THEN <<s[1]>> \o SelectSeqIn(Tail(s), T)
       ELSE SelectSeqIn(Tail(s), T)

\* Lines 1220-1228: the hrefs of the container, repeats dropped, made absolute.
CardLinks(card_hrefs) ==
  LET kept == DedupKeepFirst(card_hrefs)
  IN [i \in 1..Len(kept) |-> urljoin(kept[i])]

\* Skips the first two tiles.
extract_ids_skipping_two_tiles(tiles) ==
  IF Len(tiles) < 2 THEN <<>>
  ELSE DedupKeepFirst(SelectSeqIn(Tail(Tail(tiles)), Range(tiles) \ {None}))

\* extract_ids_from_col5_images: tiles is the header row's col-5 tiles, each the
\* id its image src matches (card_<id>_) or None; the first tile is skipped.
extract_ids_from_col5_images(tiles) ==
  IF Len(tiles) = 0 THEN <<>>
  ELSE DedupKeepFirst(SelectSeqIn(Tail(tiles), Range(tiles) \ {None}))

(* --------------------------- the index file ---------------------------- *)
EmptyIndex == [k \in {} |-> [url |-> <<>>, folder |-> <<>>, saved_at |-> 0]]

\* States of INDEX_FILE_PATH: no file; a file that cannot be read; text that is
\* not JSON; a file cut short while being written; JSON text of an array (any
\* JSON value that is not an object); JSON text of an object.
MissingFile == [kind |-> "missing", val |-> EmptyIndex]
UnreadableFile == [kind |-> "unreadable", val |-> EmptyIndex]
MalformedFile == [kind |-> "malformed", val |-> EmptyIndex]
PartialFile == [kind |-> "partial", val |-> EmptyIndex]
ArrayFile == [kind |-> "array", val |-> EmptyIndex]

\* json.dumps(index_data, ...) as file content.
json_dumps(index_data) == [kind |-> "object", val |-> index_data]

\* What load_index() returns or raises for a file: the Python value read
\* (a dict, or a value that is not a dict), and whether the warning was logged.
load_index(file) ==
  IF file.kind = "missing"
  THEN [isDict |-> TRUE, val |-> EmptyIndex, warned |-> FALSE]
  ELSE IF file.kind \in {"unreadable", "malformed", "partial"}
       THEN [isDict |-> TRUE, val |-> EmptyIndex, warned |-> TRUE]
       ELSE IF file.kind = "array"
            THEN [isDict |-> FALSE, val |-> EmptyIndex, warned |-> FALSE]
            ELSE [isDict |-> TRUE, val |-> file.val, warned |-> FALSE]

\* Mutant: the seen-set starts empty, whatever the index holds.
InitialSeenEmpty(index_data) == {}

\* Line 1179: seen_card_ids = set(index_data.keys()).
InitialSeen(index_data) == DOMAIN index_data

(* --------------------------- the page inputs --------------------------- *)
\* hrefs an index page's container can hold (each starts with "/cards/"): card 1
\* with a query mark after the id, and one with no numeric id.  The related
\* loop builds the plain URL of card 1, a second URL of the same id.
Hrefs ==
  { <<"/cards/", "1", "?">>, <<"/cards/", "x">> }

\* Ids the header tiles of a card page can show.
TileIds == { <<"1">>, <<"2">> }

\* The header tiles of a card page: none, or the tile of the card itself (its
\* image matches an id) followed by the tiles of its other forms.
PageTileLists ==
  {<<>>} \cup
  { <<<<"2">>>> \o rest : rest \in SeqsUpTo(TileIds \cup {None}, MaxTiles - 1) }

\* Ids an index file written by earlier runs can hold.
StoredIds == { <<"1">> }

DisplayNames == { "Goku" }

\* sanitize_filename(f"{display_name_bracketed} - {character_id}"), lines 1100-1109.
FolderName(display_name, character_id) ==
  <<display_name, IF character_id = None THEN Unknown ELSE character_id>>

\* An entry an earlier run saved for id k.
StoredEntry(k) ==
  [url |-> RelatedUrl(k), folder |-> FolderName("Goku", k), saved_at |-> 0]

InitialFiles ==
  {MissingFile, UnreadableFile, MalformedFile, ArrayFile}
    \cup {json_dumps([k \in S |-> StoredEntry(k)]) : S \in SUBSET StoredIds}

(* ------------------------------ decisions ------------------------------ *)
\* Mutant: the quota test is off by one (> for >=).
QuotaReachedLate(n) == n > MAX_NEW_CARDS_TO_SAVE

\* Lines 1198, 1243, 1279, 1309.
QuotaReached(n) == n >= MAX_NEW_CARDS_TO_SAVE

\* Mutant: the page test is off by one (<= for <).
PagesLeftLate(n) == n <= MAX_PAGES_TO_SCRAPE

\* Line 1197.
PagesLeft(n) == n < MAX_PAGES_TO_SCRAPE

\* Mutant: the seen-set is not consulted for a card link.
AlreadySeenNever(id, seen) == FALSE

\* Line 1248 (and 1265): an id was extracted and it is in the seen-set.
AlreadySeen(id, seen) == id # None /\ id \in seen

\* Mutant: the "unknown" bucket is indexed like an id.
HasIndexableIdAlways(character_id) == TRUE

\* Line 1151: character_id and character_id != "unknown".
HasIndexableId(character_id) == character_id # None /\ character_id # Unknown

\* Mutant: the seen-set is not consulted for a related id.
RelatedSeenNever(related_id, seen) == FALSE

\* Line 1281: related_id in seen_card_ids.
RelatedSeen(related_id, seen) == related_id \in seen

\* Line 1100: metadata.get("character_id") or "unknown".
IdOrUnknown(character_id) == IF character_id = None THEN Unknown ELSE character_id

\* Line 1296: related_metadata.get("character_id") or related_id.
RelatedCharacterId(character_id, related_id) ==
  IF character_id = None THEN related_id ELSE character_id

\* Mutant: METADATA.json and ATTRIBUTION.txt are not written by the time the
\* index entry is made.
record_files_written_late(written, folder) == written

\* Lines 1136-1149: METADATA.json and ATTRIBUTION.txt are written into the
\* record folder, after PAGE_TEXT.txt (line 1134) and before the index entry.
record_files_written(written, folder) == written \cup {folder}

\* Lines 1158-1167: index_data[character_id] = {...}.
Upsert(index, character_id, entry) ==
  [k \in DOMAIN index \cup {character_id} |->
     IF k = character_id THEN entry ELSE index[k]]

(* ------------------------- extraction failures ------------------------- *)
\* The src attributes of the img elements of a card page: a site-relative path
\* and an absolute URL whose host opens a bracket and never closes it.
ImgSrcs == { <<"/img/", "a", ".png">>, <<"http://", "[", "x">> }

\* The img src lists of the card pages the crawl is run against.
PageImgLists == { <<<<"/img/", "a", ".png">>>>,
                  <<<<"/img/", "a", ".png">>, <<"http://", "[", "x">>>> }

\* Line 980: urljoin(page_url, src) splits src; urlsplit raises ValueError
\* ("Invalid IPv6 URL") for a host with one bracket and not the other.
urljoin_raises(src) == ("[" \in Range(src)) # ("]" \in Range(src))

\* Lines 933-1049: scrape_card_from_html has no try around any extractor, so
\* it raises when an extractor does; of the extractors, the image loop of
\* lines 976-983 is the one modelled with an input that makes it raise.
scrape_raises(srcs) == \E i \in DOMAIN srcs : urljoin_raises(srcs[i])

\* The ids extract_ids_from_col5_images reads off the tiles of a page, as a set.
TileRelatedIds(tiles) == Range(extract_ids_from_col5_images(tiles))

(* ----------------------------- text parsing ---------------------------- *)
\* Texts are sequences of characters; a word that is never split stands as one
\* element.  The whitespace characters are the blank and the line break.
Whitespace == {" ", "\n"}

\* Lines 36-47: the list, in its order.
SectionHeaderList ==
  << <<"Leader", " ", "Skill">>, <<"Super", " ", "Attack">>,
     <<"Ultra", " ", "Super", " ", "Attack">>, <<"Passive", " ", "Skill">>,
     <<"Active", " ", "Skill">>, <<"Activation", " ", "Condition(s)">>,
     <<"Transformation", " ", "Condition(s)">>, <<"Link", " ", "Skills">>,
     <<"Categories">>, <<"Stats">> >>

\* Lines 36-47, for the membership tests.
SECTION_HEADERS == Range(SectionHeaderList)

MaxOf(S) == CHOOSE x \in S : \A y \in S : x >= y

RECURSIVE splitlines(_)
\* str.splitlines(): the text cut at its line breaks, no empty line after a
\* final break.
splitlines(text) ==
  IF Len(text) = 0 THEN <<>>
  ELSE LET breaks == {i \in 1..Len(text) : text[i] = "\n"}
           k == IF breaks = {} THEN Len(text) + 1 ELSE MinOf(breaks)
       IN <<SubSeq(text, 1, k - 1)>> \o
          (IF k >= Len(text) THEN <<>>
           ELSE splitlines(SubSeq(text, k + 1, Len(text))))

RECURSIVE CollapseWhitespace(_)
\* re.sub(r"\s+", " ", text): each run of whitespace becomes one blank.
CollapseWhitespace(text) ==
  IF Len(text) = 0 THEN <<>>
  ELSE IF text[1] \in Whitespace
       THEN IF Len(text) > 1 /\ text[2] \in Whitespace
            THEN CollapseWhitespace(Tail(text))
            ELSE <<" ">> \o CollapseWhitespace(Tail(text))
       ELSE <<text[1]>> \o CollapseWhitespace(Tail(text))

\* str.strip(): leading and trailing whitespace removed.
strip(text) ==
  LET inked == {i \in 1..Len(text) : text[i] \notin Whitespace}
  IN IF inked = {} THEN <<>> ELSE SubSeq(text, MinOf(inked), MaxOf(inked))

\* Lines 184-185 (and the same expression in line 169).
_condense_spaces(text) == strip(CollapseWhitespace(text))

\* Line 169.
text_lines(page_text) ==
  LET raw == splitlines(page_text)
  IN [i \in 1..Len(raw) |-> _condense_spaces(raw[i])]

\* Lines 170-173: the places of the lines that are headers, in order.
header_indices(lines) == {i \in 1..Len(lines) : lines[i] \in SECTION_HEADERS}

\* Every line between the two places, empty ones too.
content_block_with_empty_lines(lines, start_index, end_index) ==
  SubSeq(lines, start_index + 1, end_index - 1)

\* Line 180: the lines after start_index and before end_index that are not empty.
content_block(lines, start_index, end_index) ==
  LET between == SubSeq(lines, start_index + 1, end_index - 1)
  IN SelectSeqIn(between, Range(between) \ {<<>>})

RECURSIVE sections_dict(_, _)
\* Lines 175-181: the dict after the first n headers were handled; a header met
\* again replaces its earlier section.
sections_dict(lines, n) ==
  IF n = 0 THEN [h \in {} |-> <<>>]
  ELSE LET indices == header_indices(lines)
           before == sections_dict(lines, n - 1)
           start_index == CHOOSE i \in indices :
                            Cardinality({j \in indices : j <= i}) = n
           later == {j \in indices : j > start_index}
           end_index == IF later = {} THEN Len(lines) + 1 ELSE MinOf(later)
           header_name == lines[start_index]
       IN [h \in DOMAIN before \cup {header_name} |->
             IF h = header_name
             THEN content_block(lines, start_index, end_index)
             ELSE before[h]]

\* Lines 168-182.
_split_sections(page_text) ==
  LET lines == text_lines(page_text)
  IN sections_dict(lines, Cardinality(header_indices(lines)))

\* Line 188: the characters a sentence ends with; in src/scraper.py (line 178)
\* the full stop alone.
SentenceEnds == {".", "!", "?"}
LeaderSentenceEnds == {"."}

RECURSIVE re_split_sentences(_, _)
\* re.split(r'(?<=[.!?])\s+', text): the text cut at each run of whitespace
\* that follows a sentence end; a cut at the end of the text leaves an empty
\* last piece.
re_split_sentences(text, ends) ==
  LET cuts == {i \in 2..Len(text) :
                 text[i] \in Whitespace /\ text[i - 1] \in ends}
  IN IF cuts = {} THEN <<text>>
     ELSE LET i == MinOf(cuts)
              inked == {j \in i..Len(text) : text[j] \notin Whitespace}
              rest == IF inked = {} THEN <<>>
                      ELSE SubSeq(text, MinOf(inked), Len(text))
          IN <<SubSeq(text, 1, i - 1)>> \o re_split_sentences(rest, ends)

\* Line 188: the pieces stripped, the empty ones left out.
sentence_parts(text, ends) ==
  LET pieces == re_split_sentences(text, ends)
      stripped == [i \in 1..Len(pieces) |-> strip(pieces[i])]
  IN SelectSeqIn(stripped, Range(stripped) \ {<<>>})

\* No sentence counts as seen.
part_seen_never(part, seen_sentences) == FALSE

\* Line 192: part in seen_sentences.
part_seen(part, seen_sentences) == part \in seen_sentences

RECURSIVE output_parts(_)
\* Lines 189-194: every part not seen before is appended (and thereby seen).
output_parts(parts) ==
  IF Len(parts) = 0 THEN <<>>
  ELSE LET front == output_parts(SubSeq(parts, 1, Len(parts) - 1))
           part == parts[Len(parts)]
       IN IF part_seen(part, Range(front)) THEN front ELSE Append(front, part)

RECURSIVE join(_, _)
\* sep.join(parts).
join(parts, sep) ==
  IF Len(parts) = 0 THEN <<>>
  ELSE IF Len(parts) = 1 THEN parts[1]
  ELSE parts[1] \o sep \o join(Tail(parts), sep)

\* Lines 187-195.
_dedup_sentences(text) ==
  join(output_parts(sentence_parts(text, SentenceEnds)), <<" ">>)

\* src/scraper.py lines 177-185, the same loop inside _clean_leader: the text
\* is stripped and cut after full stops only.
leader_dedup_sentences(text) ==
  join(output_parts(sentence_parts(strip(text), LeaderSentenceEnds)), <<" ">>)

(* ---------------------------- list cleaning --------------------------- *)
\* No link counts as seen.
link_seen_never(cleaned_link, seen_links) == FALSE

\* Line 328: cleaned_link in seen_links.
link_seen(cleaned_link, seen_links) == cleaned_link \in seen_links

RECURSIVE _clean_links(_)
\* Lines 323-332: each line is condensed; an empty or seen one is passed over.
_clean_links(link_lines) ==
  IF Len(link_lines) = 0 THEN <<>>
  ELSE LET output_links == _clean_links(SubSeq(link_lines, 1, Len(link_lines) - 1))
           cleaned_link == _condense_spaces(link_lines[Len(link_lines)])
       IN IF cleaned_link = <<>> \/ link_seen(cleaned_link, Range(output_links))
          THEN output_links
          ELSE Append(output_links, cleaned_link)

\* The lines of a Link Skills section: whitespace folded and not empty (lines
\* 169 and 180).
LinkLines == { <<"A">>, <<"A", " ", "B">>, <<"B">>, <<"B", " ", "A">> }

\* Lines 49-52.
CATEGORY_FILTER_TOKENS ==
  { <<"background">>, <<"icon">>, <<"rarity">>, <<"element">>, <<"eza">>,
    <<"undefined">>, <<"venatus">>, <<"show more">>, <<"links">>,
    <<"categories">> }

\* Line 53: the endings FILE_EXTENSION_PATTERN finds, in lower case.
FileExtensions == {".png", ".jpg", ".jpeg", ".gif", ".webp"}

\* str.lower(), on the words and characters of the category texts below.
LowerOf(c) ==
  CASE c = "A" -> "a" [] c = "B" -> "b" [] c = "Icon" -> "icon"
    [] c = "Stats" -> "stats" [] c = "Categories" -> "categories"
    [] c = ".PNG" -> ".png" [] c = "Links:" -> "links:"
    [] c = "Show More" -> "show more" [] c = "_BG." -> "_bg."
    [] OTHER -> c

lower(text) == [i \in 1..Len(text) |-> LowerOf(text[i])]

\* str.strip(chars): leading and trailing characters of chars removed.
strip_chars(text, chars) ==
  LET kept == {i \in 1..Len(text) : text[i] \notin chars}
  IN IF kept = {} THEN <<>> ELSE SubSeq(text, MinOf(kept), MaxOf(kept))

\* Line 439: (category or "").strip().strip(bullet, middle dot, blank); the
\* second strip removes those three characters, no other whitespace. The
\* bullet and the middle dot are written "bullet" and "middot".
clean_category(category) ==
  strip_chars(strip(category), {"bullet", "middot", " "})

\* Lines 440-450: the cleaned category is empty, a filter token, a file name,
\* made of digits, whitespace, percent signs and colons only, a section
\* header, or holds "Links:" or "Show More".
category_dropped(category) ==
  \/ category = <<>>
  \/ lower(category) \in CATEGORY_FILTER_TOKENS
  \/ LowerOf(category[Len(category)]) \in FileExtensions
  \/ \A i \in 1..Len(category) :
        IsDigit(category[i]) \/ category[i] \in Whitespace \cup {"%", ":"}
  \/ category \in SECTION_HEADERS
  \/ "Links:" \in Range(category)
  \/ "Show More" \in Range(category)

RECURSIVE _clean_categories_python(_)
\* Lines 435-455.
_clean_categories_python(categories) ==
  IF Len(categories) = 0 THEN <<>>
  ELSE LET output_categories ==
             _clean_categories_python(SubSeq(categories, 1, Len(categories) - 1))
           category == clean_category(categories[Len(categories)])
       IN IF category_dropped(category) \/ category \in Range(output_categories)
          THEN output_categories
          ELSE Append(output_categories, category)

\* Category labels (img alt or title texts, anchor texts) of a card page, as
\* lines 497-502 hand them over: stripped and not empty.
CategoryTexts ==
  { <<"A">>, <<"bullet", " ", "A">>, <<"bullet", "\n", "A">>, <<"B">>,
    <<"Icon">>, <<"A", ".PNG">>, <<"5", " ", "%">>, <<"Stats">>,
    <<"bullet", "\n", "Stats">>, <<"B", " ", "Links:">>, <<"Show More">>,
    <<"middot">> }

\* Lines 497-502: the merged labels, none of them twice.
MergedCategories ==
  { v \in SeqsUpTo(CategoryTexts, MaxListLen) :
      \A i, j \in 1..Len(v) : i # j => v[i] # v[j] }

\* urljoin(page_url, src) of line 980 for a src that is a path from the site
\* root or an absolute URL of the site.
absolute_image_url(src) == IF src[1] = BASE_URL THEN src ELSE <<BASE_URL>> \o src

RECURSIVE image_urls(_)
\* Lines 974-983: an img with no src is passed over; each other src is made
\* absolute and kept unless that URL was kept before.
image_urls(srcs) ==
  IF Len(srcs) = 0 THEN <<>>
  ELSE LET urls == image_urls(SubSeq(srcs, 1, Len(srcs) - 1))
           src == srcs[Len(srcs)]
       IN IF src = <<>> \/ absolute_image_url(src) \in Range(urls)
          THEN urls
          ELSE Append(urls, absolute_image_url(src))

\* The src attributes of the img elements of a card page, for image_urls: paths
\* from the site root, the absolute URL of one of them, and no src.
ImageSrcs ==
  { <<"/img/", "a", ".png">>, <<BASE_URL, "/img/", "a", ".png">>,
    <<"/img/", "b", ".png">>, <<>> }

\* Lines 598-602: the blocks parse_domains collects; name and effect are None
\* when the block lacks them.
DomainBlocks ==
  [name : {None, <<>>, <<"D">>}, effect : {None, <<>>, <<"E">>},
   type : {None, <<"AGL">>}]

\* Line 607: (domain.get("name") or "", domain.get("effect") or "").
domain_key(domain) ==
  << IF domain.name = None THEN <<>> ELSE domain.name,
     IF domain.effect = None THEN <<>> ELSE domain.effect >>

RECURSIVE unique_domains(_)
\* Lines 604-612.
unique_domains(domains_list) ==
  IF Len(domains_list) = 0 THEN <<>>
  ELSE LET kept == unique_domains(SubSeq(domains_list, 1, Len(domains_list) - 1))
           domain == domains_list[Len(domains_list)]
       IN IF domain_key(domain) \in {domain_key(kept[i]) : i \in 1..Len(kept)}
          THEN kept
          ELSE Append(kept, domain)

(* --------------------------- section cleaners -------------------------- *)
RECURSIVE replace_with_nothing(_, _)
\* text.replace(old, ""): the occurrences of old, met from the left and not
\* overlapping, are cut out; the text is not searched again.
replace_with_nothing(text, old) ==
  IF Len(text) < Len(old) THEN text
  ELSE IF SubSeq(text, 1, Len(old)) = old
       THEN replace_with_nothing(SubSeq(text, Len(old) + 1, Len(text)), old)
       ELSE <<text[1]>> \o replace_with_nothing(Tail(text), old)

RECURSIVE headers_replaced(_, _)
\* Lines 319-320: the text after the first n headers of the list were replaced,
\* one header after the other.
headers_replaced(text, n) ==
  IF n = 0 THEN text
  ELSE replace_with_nothing(headers_replaced(text, n - 1), SectionHeaderList[n])

\* Lines 315-321.
_clean_activation(section_lines) ==
  IF Len(section_lines) = 0 THEN None
  ELSE LET activation_text ==
             headers_replaced(_condense_spaces(join(section_lines, <<" ">>)),
                              Len(SectionHeaderList))
       IN IF strip(activation_text) = <<>> THEN None ELSE strip(activation_text)

\* x or None: None for None and for the empty string.
or_None(x) == IF x = None \/ x = <<>> THEN None ELSE x

\* Lines 197-208.  The pattern of lines 202-207 folds a phrase about the
\* "Exploding Rage" category that stands twice; the texts here do not hold it.
_clean_leader(section_lines) ==
  IF Len(section_lines) = 0 THEN None
  ELSE or_None(_dedup_sentences(_condense_spaces(join(section_lines, <<" ">>))))

\* Line 219, re.fullmatch(r"\d+\s*%$", line): digits, whitespace or none, a
\* percent sign.
is_percent_line(line) ==
  /\ Len(line) >= 2
  /\ line[Len(line)] = "%"
  /\ IsDigit(line[1])
  /\ \A i \in 1..(Len(line) - 1) : IsDigit(line[i]) \/ line[i] \in Whitespace
  /\ \A i \in 1..(Len(line) - 2) :
       line[i] \in Whitespace => line[i + 1] \in Whitespace \cup {"%"}

\* Line 221, re.search(r"\bSA\s*Lv\b", line): the word pair stands as "SA Lv".
holds_sa_lv(line) == "SA Lv" \in Range(line)

\* Lines 210-228.  The lines here hold no semicolon and no "Raises ATK & DEF
\* Causes", so the substitutions of lines 225-226 leave the joined text as it is.
_clean_super_like(section_lines) ==
  IF Len(section_lines) = 0 THEN [name |-> None, effect |-> None]
  ELSE LET attack_name == section_lines[1]
           remaining_lines == Tail(section_lines)
           effect_parts ==
             SelectSeqIn(remaining_lines,
                         {line \in Range(remaining_lines) :
                            /\ line # <<>>
                            /\ ~is_percent_line(line)
                            /\ ~holds_sa_lv(line)})
           effect_text == _condense_spaces(join(effect_parts, <<";", " ">>))
       IN [name |-> or_None(attack_name), effect |-> or_None(effect_text)]

\* Lines 303-313, for a content block of _split_sections: none of its lines is
\* a header, so the loop of lines 308-311 takes them all.
_clean_active(section_lines) ==
  IF Len(section_lines) = 0 THEN [name |-> None, effect |-> None]
  ELSE LET active_name == section_lines[1]
           body == Tail(section_lines)
           active_body ==
             SelectSeqIn([i \in 1..Len(body) |-> _condense_spaces(body[i])],
                         {_condense_spaces(body[i]) : i \in 1..Len(body)} \ {<<>>})
           active_effect == _condense_spaces(join(active_body, <<";", " ">>))
       IN [name |-> or_None(active_name), effect |-> or_None(active_effect)]

\* Lines 236-249: with no "Passive Skill" label or no name column there is no
\* name; otherwise the name is the text of the column (or of its b element),
\* stripped, be it empty.
passive_name_of(passive) ==
  IF ~passive.label \/ passive.name_col = None THEN None
  ELSE strip(passive.name_col)

\* The words and characters of the texts of an Activation Condition(s) section.
ActivationChars == {"\n", " ", "Leader", "Skill", "Stats", "a"}

\* The content block of a section whose text is page_text: its lines with the
\* whitespace folded, the empty ones left out (lines 169 and 180); a header
\* line would have ended the section (line 179).
SectionBlock(page_text) ==
  LET lines == text_lines(page_text)
  IN SelectSeqIn(lines, Range(lines) \ {<<>>})

\* The content blocks _clean_activation is run on: those of the short texts,
\* and some with the longest header in them.
ActivationBlocks ==
  { b \in { SectionBlock(t) : t \in SeqsUpTo(ActivationChars, MaxText) } :
      Range(b) \cap SECTION_HEADERS = {} }
  \cup { << <<"a", " ", "Ultra", " ", "Super", " ", "Attack">> >>,
         << <<"Ultra", " ", "Super", " ", "Attack", " ", "a">> >>,
         << <<"Ultra", " ", "Super", " ", "Super", " ", "Attack", "Attack">> >>,
         << <<"Ultra", " ", "Super">>, <<"Attack", " ", "a">> >> }

(* ----------------------------- parse_eza_info -------------------------- *)
\* The words a row's text can hold, of those parse_eza_info looks for.
RowWords == {"PRE-EZA", "EZA", "Step:"}

\* word in row.get_text(): the text holds the word, be it inside another one.
text_holds(words, word) ==
  \/ word \in words
  \/ word = "EZA" /\ "PRE-EZA" \in words

\* int(step_text) raises ValueError unless the text is digits with at most one
\* sign before them (get_text(strip=True) leaves no outer whitespace).
int_raises(step_text) ==
  LET digits == IF Len(step_text) > 0 /\ step_text[1] \in {"+", "-"}
                THEN Tail(step_text) ELSE step_text
  IN ~IsIntString(digits)

\* int(step_text).
int_of(step_text) ==
  IF step_text[1] = "-" THEN 0 - StrToInt(Tail(step_text))
  ELSE IF step_text[1] = "+" THEN StrToInt(Tail(step_text))
  ELSE StrToInt(step_text)

\* Step 4 and every step after it count as Super EZA.
is_step_four_or_more(step_number) == step_number >= 4

\* Line 650: step_number == 4.
is_step_four(step_number) == step_number = 4

\* Lines 662 and 667: re.search of a label followed by whitespace and a date in
\* the text of the release section (a sequence of labels and dates; "EZA"
\* stands for the word and the blank before "Release Date"): the date of the
\* first place where the label's words are followed by a date, or None.
DateTokens == {"d1", "d2"}

release_match(text_content) ==
  LET at == {i \in 1..(Len(text_content) - 1) :
               text_content[i] = "Release Date" /\ text_content[i + 1] \in DateTokens}
  IN IF at = {} THEN None ELSE <<text_content[MinOf(at) + 1]>>

eza_release_match(text_content) ==
  LET at == {i \in 1..(Len(text_content) - 2) :
               /\ text_content[i] = "EZA"
               /\ text_content[i + 1] = "Release Date"
               /\ text_content[i + 2] \in DateTokens}
  IN IF at = {} THEN None ELSE <<text_content[MinOf(at) + 2]>>

\* Lines 655-659: a div whose text holds "Release Date" and "EZA Release Date".
is_release_section(text_content) ==
  /\ "Release Date" \in Range(text_content)
  /\ \E i \in 1..(Len(text_content) - 1) :
       text_content[i] = "EZA" /\ text_content[i + 1] = "Release Date"

\* eza_step when no step was read (None), and when step n was.
NoStep == {}
Step(n) == {n}

\* Lines 614-675.  dom.rows is the div.row elements in document order, each
\* the next sibling of the one before it, with the words of its text and the
\* text of its span.multiselect__single (None when it has none); dom.release
\* is the text of the first div that holds both release labels, or None.
parse_eza_info(dom) ==
  LET toggles == {i \in 1..Len(dom.rows) :
                    /\ text_holds(dom.rows[i].words, "PRE-EZA")
                    /\ text_holds(dom.rows[i].words, "EZA")}
      eza_toggle == MinOf(toggles)
      has_step_row == eza_toggle < Len(dom.rows)
      step_row == dom.rows[eza_toggle + 1]
      step_parsed ==
        /\ has_step_row
        /\ text_holds(step_row.words, "Step:")
        /\ step_row.selected # None
        /\ ~int_raises(step_row.selected)
      found == dom.release # None /\ is_release_section(dom.release)
  IN IF toggles = {}
     THEN [has_eza |-> FALSE, eza_step |-> NoStep, is_seza |-> FALSE,
           release_date |-> None, eza_release_date |-> None]
     ELSE [has_eza |-> TRUE,
           eza_step |-> IF step_parsed THEN Step(int_of(step_row.selected))
                        ELSE NoStep,
           is_seza |-> step_parsed /\ is_step_four(int_of(step_row.selected)),
           release_date |-> IF found THEN release_match(dom.release) ELSE None,
           eza_release_date |->
             IF found THEN eza_release_match(dom.release) ELSE None]

\* The texts of the selected step.
StepTexts == { <<"4">>, <<"0", "4">>, <<"3">>, <<"5">>, <<"-", "4">>, <<"x">> }

\* The rows of a card page: the words of the text, the selected step.
DomRows ==
  [words : { {}, {"EZA"}, {"PRE-EZA", "EZA"}, {"Step:"}, {"PRE-EZA", "Step:"} },
   selected : {None} \cup StepTexts]

\* The texts of a div that holds release dates.
ReleaseTexts ==
  { None,
    <<"Release Date", "d1">>,
    <<"Release Date", "d1", "EZA", "Release Date", "d2">>,
    <<"Release Date", "EZA", "Release Date", "d2">>,
    <<"Release Date", "d1", "EZA", "Release Date">> }

EzaDoms == [rows : SeqsUpTo(DomRows, MaxRows), release : ReleaseTexts]

\* The characters of the texts _dedup_sentences is run on.
SentenceChars == {" ", ".", "!", "a"}

\* The characters of the page texts _split_sections is run on.
TextChars == {"\n", " ", "Stats", "Link", "Skills", "a"}

(* ------------------------ format_metadata_output ----------------------- *)
\* The rows of the stats table parse_stats_from_soup keeps (line 406).
StatNames == {"HP", "ATK", "DEF"}

\* Column labels a stats table header can carry (line 412 takes the header
\* text as it is): a base column, two percentage columns, and a column whose
\* label holds a percent sign and no number.
StatLabels ==
  { <<"Base Min">>, <<"5", "5", "%">>, <<"1", "0", "0", "%">>, <<"Max", "%">> }

\* The int of a cell of a row (line 415); which int plays no part below.
StatValue(stat) == CASE stat = "HP" -> 1 [] stat = "ATK" -> 2 [] OTHER -> 3

\* A stats dict as parse_stats_from_soup builds it: Cost is None when the page
\* text has no cost, and a row with no parsed cell (an empty function here) is
\* not stored (line 419).
StatsDict(cost, hp, atk, dfn) ==
  [k \in {"Cost", "HP", "ATK", "DEF"} |->
     CASE k = "Cost" -> cost
       [] k = "HP" -> [l \in hp |-> StatValue(k)]
       [] k = "ATK" -> [l \in atk |-> StatValue(k)]
       [] OTHER -> [l \in dfn |-> StatValue(k)]]

StatsDicts ==
  { StatsDict(cost, hp, atk, dfn) :
      cost \in {None, <<"5">>}, hp \in SUBSET StatLabels,
      atk \in SUBSET StatLabels, dfn \in SUBSET StatLabels }

\* Line 727, "if not stats": the dict has no key.
StatsIsEmpty(stats) ==
  /\ stats["Cost"] = None
  /\ \A n \in StatNames : DOMAIN stats[n] = {}

\* Lines 745-748: the labels of the three rows.
all_percentages(stats) == UNION {DOMAIN stats[n] : n \in StatNames}

\* Line 751: the labels that hold a percent sign.
percentage_labels(stats) == {p \in all_percentages(stats) : "%" \in Range(p)}

\* str(x).replace("%", "").
WithoutPercent(label) == SelectSeqIn(label, Range(label) \ {"%"})

\* Line 752: float(text) raises ValueError unless text is a number; of the
\* texts the labels here give, the numbers are the non-empty digit strings.
float_raises(text) == ~IsIntString(text)

\* Lines 751-752: sorted() calls the key on every label with a percent sign.
sort_raises(stats) ==
  \E p \in percentage_labels(stats) : float_raises(WithoutPercent(p))

RECURSIVE ReplacePercent(_)
\* Line 788: percentage.replace('%', '_percent').
ReplacePercent(label) ==
  IF Len(label) = 0 THEN <<>>
  ELSE (IF label[1] = "%" THEN <<"_percent">> ELSE <<label[1]>>)
       \o ReplacePercent(Tail(label))

BaseColumns == { <<"Base Min">>, <<"Base Max">> }

\* Lines 725-791.  The result names its top-level keys; raises is "ValueError"
\* when the sort key of line 752 raised.
format_stats_by_percentage(stats) ==
  LET rows == {n \in StatNames : DOMAIN stats[n] # {}}
      base_info == IF stats["Cost"] = None THEN {} ELSE {<<"Cost", stats["Cost"]>>}
      base_stats ==
        [n \in {m \in rows : DOMAIN stats[m] \cap BaseColumns # {}} |->
           [l \in DOMAIN stats[n] \cap BaseColumns |-> stats[n][l]]]
      level(p) == [n \in {m \in rows : p \in DOMAIN stats[m]} |-> stats[n][p]]
      levels ==
        [k \in {<<"hidden_potential_">> \o ReplacePercent(p) :
                  p \in percentage_labels(stats)} |->
           level(CHOOSE p \in percentage_labels(stats) :
                   k = <<"hidden_potential_">> \o ReplacePercent(p))]
      none == [n \in {} |-> 0]
  IN IF StatsIsEmpty(stats)
     THEN [raises |-> "none", keys |-> {}, general_info |-> {},
           base_stats |-> none, levels |-> none]
     ELSE IF rows = {}
     THEN [raises |-> "none", keys |-> {"general_info"},
           general_info |-> base_info, base_stats |-> none, levels |-> none]
     ELSE IF sort_raises(stats)
     THEN [raises |-> "ValueError", keys |-> {}, general_info |-> {},
           base_stats |-> none, levels |-> none]
     ELSE [raises |-> "none",
           keys |-> {"general_info"}
                    \cup (IF DOMAIN base_stats # {} THEN {"base_stats"} ELSE {})
                    \cup (IF DOMAIN levels # {} THEN {"levels"} ELSE {}),
           general_info |-> base_info, base_stats |-> base_stats,
           levels |-> levels]

(* ------------------- extract_assets (src/dokkan_api.py) ---------------- *)
\* A URL is a sequence of path parts; word in url_lower: one of the lowered
\* parts is the word, or holds it ("cha_rare_sm_" holds "cha_rare_").
url_holds(url, word) ==
  \/ word \in Range(lower(url))
  \/ word = "cha_rare_" /\ "cha_rare_sm_" \in Range(lower(url))

NoAssets ==
  [rarity |-> None, type |-> None, background |-> None, character |-> None,
   effect |-> None, cutin |-> None]

\* Lines 178-190: the category of a URL that holds the character id, or "none".
id_category(url) ==
  IF url_holds(url, "_bg.") THEN "background"
  ELSE IF url_holds(url, "_character.") THEN "character"
  ELSE IF url_holds(url, "_effect.") THEN "effect"
  ELSE IF url_holds(url, "_cutin.") THEN "cutin"
  ELSE "none"

\* Lines 193-205: the category a URL under the character card path fills, the
\* first of the four whose word it holds and that is still empty, or "none".
fallback_category(url, found) ==
  IF url_holds(url, "_character.") /\ found.character = None THEN "character"
  ELSE IF url_holds(url, "_bg.") /\ found.background = None THEN "background"
  ELSE IF url_holds(url, "_effect.") /\ found.effect = None THEN "effect"
  ELSE IF url_holds(url, "_cutin.") /\ found.cutin = None THEN "cutin"
  ELSE "none"

\* Lines 164-205, one turn of the loop.
classify_url(found, url, character_id) ==
  IF url_holds(url, "cha_rare_sm_") \/ url_holds(url, "cha_rare_")
  THEN IF found.rarity = None THEN [found EXCEPT !.rarity = url] ELSE found
  ELSE IF url_holds(url, "cha_type_icon_")
  THEN IF found.type = None THEN [found EXCEPT !.type = url] ELSE found
  ELSE IF character_id # "" /\ character_id \in Range(url)
  THEN IF id_category(url) = "none" THEN found
       ELSE [found EXCEPT ![id_category(url)] = url]
  ELSE IF url_holds(url, "/character/card/")
  THEN IF fallback_category(url, found) = "none" THEN found
       ELSE [found EXCEPT ![fallback_category(url, found)] = url]
  ELSE found

RECURSIVE extract_assets(_, _)
\* Lines 151-212.
extract_assets(url_list, character_id) ==
  IF Len(url_list) = 0 THEN NoAssets
  ELSE classify_url(extract_assets(SubSeq(url_list, 1, Len(url_list) - 1),
                                   character_id),
                    url_list[Len(url_list)], character_id)

\* Image URLs of a card: rarity and type icons, backgrounds and character art
\* of card 1 with its id in the name, and the same of a card with another id
\* under the character card path.
AssetUrls ==
  { <<"/icons/", "cha_rare_sm_", "ur">>, <<"/icons/", "cha_rare_", "lr">>,
    <<"/icons/", "cha_type_icon_", "agl">>,
    <<"/character/card/", "1", "_bg.", "png">>,
    <<"/character/thumb/", "1", "_BG.", "png">>,
    <<"/character/card/", "2", "_bg.", "png">>,
    <<"/character/card/", "1", "_character.", "png">>,
    <<"/character/card/", "2", "_character.", "png">> }

\* Line 77: card_id.get("character_id", "").
AssetCharacterIds == {"1", ""}

(* -------------------------- parse_stats_from_soup ---------------------- *)
\* value_text.replace(",", "").
WithoutCommas(value_text) == SelectSeqIn(value_text, Range(value_text) \ {","})

\* The header of the cell itself, the label cell counted.
column_name_of_cell_before(headers, i) == headers[i]

\* Lines 410-412: cells[1:] is enumerated from 1 and the i-th value cell gets
\* headers[i], the list counted from 0: the label after the first i.
column_name(headers, i) == headers[i + 1]

\* Lines 410-417 for one row: the value cells that have a header and whose
\* text reads as an int, under the label of their place; of two cells under
\* one label the later one stays.
stat_values(headers, cells) ==
  LET places == {i \in 1..Len(cells) :
                   /\ i < Len(headers)
                   /\ ~int_raises(WithoutCommas(cells[i]))}
  IN [l \in {column_name(headers, i) : i \in places} |->
        int_of(WithoutCommas(
                 cells[MaxOf({i \in places : column_name(headers, i) = l})]))]

\* Lines 365-423.  table.headers is the th texts of the first row of the stats
\* table, table.rows its other rows, each with the text of its first cell and
\* the texts of its other cells.  A row is stored when it is an HP, ATK or
\* DEF row with a parsed cell; of two rows of one name the later stays.  The
\* page text names no cost.
parse_stats_from_soup(table) ==
  LET stored(n) == {r \in 1..Len(table.rows) :
                      /\ table.rows[r].name = n
                      /\ Len(table.rows[r].cells) >= 1
                      /\ DOMAIN stat_values(table.headers, table.rows[r].cells) # {}}
  IN [k \in {"Cost", "HP", "ATK", "DEF"} |->
        IF k = "Cost" THEN None
        ELSE IF stored(k) = {} THEN [l \in {} |-> 0]
        ELSE stat_values(table.headers, table.rows[MaxOf(stored(k))].cells)]

\* The texts of the value cells: numbers, one with a thousands separator, one
\* that is no number.
CellTexts ==
  { <<"1", "0", "0">>, <<"2", "0", "0">>, <<"1", "5", "0">>, <<"3", "0", "0">>,
    <<"1", ",", "5", "0", "0">>, <<"n/a">> }

\* The header rows: the label cell, the base columns, percentage columns.
StatsHeaders ==
  { << <<"Stats">>, <<"Base Min">>, <<"Base Max">>, <<"5", "5", "%">>, <<"1", "0", "0", "%">> >>,
    << <<"Stats">>, <<"Base Min">>, <<"Base Max">>, <<"1", "0", "0", "%">> >>,
    << <<"Stats">>, <<"Base Min">>, <<"Base Max">> >> }

\* The stats tables: a row named HP or named otherwise, alone or followed by
\* an ATK row.
StatsTables ==
  { [headers |-> h, rows |-> <<[name |-> n, cells |-> c]>> \o rest] :
      h \in StatsHeaders, n \in {"HP", "Max Lv"},
      c \in SeqsUpTo(CellTexts, MaxCells),
      rest \in { <<>>, <<[name |-> "ATK",
                          cells |-> << <<"2", "0", "0">>, <<"n/a">>,
                                       <<"1", ",", "5", "0", "0">> >>]>> } }

\* The stats dicts of the card pages the crawl is run against: a table with a
\* 55% column, and one with a column labelled Max%.
PageStatsDicts ==
  { StatsDict(None, {<<"5", "5", "%">>}, {}, {}),
    StatsDict(None, {<<"Max", "%">>}, {}, {}) }

\* Lines 845 and 921: the rarity a page gave, or None.
Rarities == { None, <<"UR">> }

\* The text fields of a metadata dict whose page gave none of them.
NoTexts ==
  [leader_skill |-> None,
   super_attack |-> [name |-> None, effect |-> None],
   ultra_super_attack |-> [name |-> None, effect |-> None],
   passive_skill |-> [name |-> None],
   active_skill |-> [name |-> None, effect |-> None,
                     activation_conditions |-> None],
   domains |-> <<>>,
   eza_info |-> [has_eza |-> FALSE, eza_step |-> NoStep, is_seza |-> FALSE,
                 release_date |-> None, eza_release_date |-> None]]

\* Lines 865-870: domain.get(key, default) of a dict that has the key gives
\* the value, be it None or empty.
formatted_domain(domain) ==
  [name |-> domain.name, effect |-> domain.effect, type |-> domain.type]

\* Lines 810-930, for the fields modelled: the names and effects of the
\* attacks and skills pass through "x if x else None" (lines 817-840), the
\* leader skill, the domains and the EZA dates are taken as they are (lines
\* 862-880 and 895), the stats are formatted (line 913) and a rarity of None
\* becomes "UNKNOWN" (line 921).
format_metadata_output(md) ==
  LET base_statistics == format_stats_by_percentage(md.stats)
  IN [raises |-> base_statistics.raises,
      base_statistics |-> base_statistics,
      rarity_detected |->
        IF md.rarity_detected # None THEN md.rarity_detected ELSE <<"UNKNOWN">>,
      leader_ability |-> [leader_skill |-> md.leader_skill],
      attack_techniques |->
        [super_attack |-> [name |-> or_None(md.super_attack.name),
                           effect |-> or_None(md.super_attack.effect)],
         ultra_super_attack |-> [name |-> or_None(md.ultra_super_attack.name),
                                 effect |-> or_None(md.ultra_super_attack.effect)]],
      passive_skill |-> [name |-> or_None(md.passive_skill.name)],
      active_skill |->
        [name |-> or_None(md.active_skill.name),
         effect |-> or_None(md.active_skill.effect),
         activation_conditions |-> or_None(md.active_skill.activation_conditions)],
      domain_effects |->
        [i \in 1..Len(md.domains) |-> formatted_domain(md.domains[i])],
      extreme_z_awakening |->
        [has_eza |-> md.eza_info.has_eza,
         eza_step |-> md.eza_info.eza_step,
         is_seza |-> md.eza_info.is_seza,
         original_release_date |-> md.eza_info.release_date,
         eza_release_date |-> md.eza_info.eza_release_date]]

\* Lines 933-1049, for the text fields: each comes from its section or its
\* part of the page by its cleaner.  page.leader, page.super, page.ultra,
\* page.active and page.activation are the content blocks of the sections;
\* the names of the attacks are found in their sections, so the searches of
\* lines 944-961 for a name in the page text are not made.
scrape_card_from_html(page) ==
  [stats |-> StatsDict(None, {}, {}, {}),
   rarity_detected |-> None,
   leader_skill |-> _clean_leader(page.leader),
   super_attack |-> _clean_super_like(page.super),
   ultra_super_attack |-> _clean_super_like(page.ultra),
   passive_skill |-> [name |-> passive_name_of(page.passive)],
   active_skill |->
     [name |-> _clean_active(page.active).name,
      effect |-> _clean_active(page.active).effect,
      activation_conditions |-> _clean_activation(page.activation)],
   domains |-> unique_domains(page.domains),
   eza_info |-> parse_eza_info(page.eza)]

\* The parts of the card pages the text fields are read from.
LeaderBlocks ==
  { <<>>, << <<"a", ".">> >>, << <<"a", ".">>, <<"a", ".">> >> }

AttackBlocks ==
  { <<>>, << <<"Name">> >>, << <<"Name">>, <<"1", "0", "%">> >>,
    << <<"Name">>, <<"SA Lv", " ", "1">>, <<"a">> >> }

ActiveBlocks == { <<>>, << <<"Name">> >>, << <<"Name">>, <<"a">>, <<"a">> >> }

PassiveParts ==
  { [label |-> FALSE, name_col |-> None], [label |-> TRUE, name_col |-> None],
    [label |-> TRUE, name_col |-> <<" ">>], [label |-> TRUE, name_col |-> <<"P">>] }

PageActivationBlocks ==
  { <<>>, << <<"a">> >>, << <<"Stats", " ", "Stats">> >> }

PageDomains == {<<>>} \cup { <<d>> : d \in {b \in DomainBlocks : b.type = None} }

PageEzaDoms ==
  { [rows |-> <<>>, release |-> None],
    [rows |-> << [words |-> {"PRE-EZA", "EZA"}, selected |-> None] >>,
     release |-> <<"Release Date", "d1", "EZA", "Release Date", "d2">>],
    [rows |-> << [words |-> {"PRE-EZA", "EZA"}, selected |-> None] >>,
     release |-> <<"Release Date", "d1", "EZA", "Release Date">>] }

TextPages ==
  [leader : LeaderBlocks, super : AttackBlocks,
   ultra : {<<>>, << <<"Name">>, <<"a">> >>},
   passive : PassiveParts, active : ActiveBlocks,
   activation : PageActivationBlocks, domains : PageDomains, eza : PageEzaDoms]

(* -------------------------------- state -------------------------------- *)
VARIABLES
  pc,                 \* where main() is
  index_data,         \* the in-memory index, id -> entry
  seen_card_ids,      \* the in-run seen-set
  new_cards_saved,    \* the counter compared with the quota
  current_index_url,  \* the index page to open next
  pages_processed,
  card_links,         \* the card links of the index page being processed
  card_index,         \* position in card_links of the link met next
  page_tiles,         \* the header tiles of page_html (the card page loaded)
  related_card_ids,   \* the related ids of the card being processed
  related_index,      \* position in related_card_ids of the id met next
  metadata,           \* the record handed to write_card_outputs_and_update_index
  caller,             \* which loop called it: "card" or "related"
  indexFile,          \* content of INDEX_FILE_PATH on disk
  files,              \* the record folders written under OUTPUT_ROOT_DIR
  documents,          \* the record folders that hold METADATA.json and ATTRIBUTION.txt
  assets,             \* the folders written under ASSETS_ROOT_DIR
  clock,              \* datetime.utcnow(), as the number of records written
  initialKeys,        \* history: the keys load_index() returned
  requested,          \* history: the card URLs page.goto was called with
  opened,             \* the card URL page.goto was called with in the last step, or NoUrl
  loaded,             \* history: the card URLs whose page was extracted
  skipped,            \* history: the card URLs met and not opened (id in the seen-set)
  saves,              \* history: records written, per id (or "unknown")
  indexRenders,       \* history: number of page.goto calls on an index URL
  indexRequested,     \* history: the index URLs page.goto was called with
  prevFile,           \* history: the file before the last save_index() began
  pendingText,        \* history: the text the last save_index() serialized
  timed_out,          \* the last step caught a PWTimeoutError of page.goto
  slept,              \* time.sleep(DELAY_BETWEEN_CARDS_SEC) ran since the last card page.goto
  related_found,      \* history: the related ids shown by the related pages loaded for this card
  fn_pc,              \* a function run on its own: "idle", "input", or the step reached
  fn_arg,             \* the argument it is called with
  fn_out              \* what it returned

vars ==
  <<pc, index_data, seen_card_ids, new_cards_saved, current_index_url,
    pages_processed, card_links, card_index, page_tiles, related_card_ids,
    related_index, metadata, caller, indexFile, files, documents, assets,
    clock,
    initialKeys, requested, opened, loaded, skipped, saves, indexRenders,
    indexRequested, prevFile, pendingText, timed_out, slept, related_found,
    fn_pc, fn_arg, fn_out>>

\* The variables of main(), and those of a function run on its own.
crawlVars ==
  <<pc, index_data, seen_card_ids, new_cards_saved, current_index_url,
    pages_processed, card_links, card_index, page_tiles, related_card_ids,
    related_index, metadata, caller, indexFile, files, documents, assets,
    clock,
    initialKeys, requested, opened, loaded, skipped, saves, indexRenders,
    indexRequested, prevFile, pendingText, timed_out, slept, related_found>>

fnVars == <<fn_pc, fn_arg, fn_out>>

prog ==
  <<index_data, seen_card_ids, new_cards_saved, current_index_url,
    pages_processed, card_links, card_index, page_tiles, related_card_ids,
    related_index, metadata, caller>>

disk == <<indexFile, files, documents, assets, clock, prevFile, pendingText>>

cardHist == <<requested, loaded, skipped, saves>>

indexHist == <<indexRenders, indexRequested>>

\* The bag b with one more x.
BagAdd(b, x) ==
  [k \in DOMAIN b \cup {x} |->
     IF k = x THEN (IF k \in DOMAIN b THEN b[k] ELSE 0) + 1 ELSE b[k]]

\* No card page was opened.
NoUrl == <<>>

NoMetadata ==
  [source_url |-> <<>>, character_id |-> None, display_name |-> "",
   stats |-> StatsDict(None, {}, {}, {})]

\* main() before its first statement.
CrawlInit ==
  /\ pc = "start"
  /\ index_data = EmptyIndex
  /\ seen_card_ids = {}
  /\ new_cards_saved = 0
  /\ current_index_url = CARDS_INDEX_URL
  /\ pages_processed = 0
  /\ card_links = <<>>
  /\ card_index = 1
  /\ page_tiles = <<>>
  /\ related_card_ids = <<>>
  /\ related_index = 1
  /\ metadata = NoMetadata
  /\ caller = "card"
  /\ indexFile \in InitialFiles
  /\ files = {indexFile.val[k].folder : k \in DOMAIN indexFile.val}
  /\ documents = files
  /\ assets = files
  /\ clock = 0
  /\ initialKeys = {}
  /\ requested = {}
  /\ opened = NoUrl
  /\ loaded = {}
  /\ skipped = {}
  /\ saves = [k \in {} |-> 0]
  /\ indexRenders = 0
  /\ indexRequested = {}
  /\ prevFile = indexFile
  /\ pendingText = indexFile
  /\ timed_out = FALSE
  /\ slept = FALSE
  /\ related_found = {}

Init ==
  /\ CrawlInit
  /\ fn_pc = "idle"
  /\ fn_arg = <<>>
  /\ fn_out = <<>>

(* ------------------------------- startup ------------------------------- *)
\* Lines 1178-1183: load the index and fill the seen-set.  A loaded value that
\* is not a dict has no keys(): line 1179 raises AttributeError, main() ends.
LoadIndex ==
  /\ pc = "start"
  /\ LET r == load_index(indexFile)
     IN IF r.isDict
        THEN /\ index_data' = r.val
             /\ seen_card_ids' = InitialSeen(r.val)
             /\ initialKeys' = DOMAIN r.val
             /\ pc' = "index"
        ELSE /\ pc' = "fatal"
             /\ UNCHANGED <<index_data, seen_card_ids, initialKeys>>
  /\ opened' = NoUrl
  /\ timed_out' = FALSE
  /\ UNCHANGED fnVars
  /\ UNCHANGED <<slept, related_found>>
  /\ UNCHANGED <<new_cards_saved, current_index_url, pages_processed, card_links,
                 card_index, page_tiles, related_card_ids, related_index,
                 metadata, caller, disk, cardHist, indexHist>>

(* --------------------------- the index pages --------------------------- *)
\* Lines 1312-1317 and 1232-1237: go to the next index page, or stop when the
\* next URL is the current one.
Advance ==
  LET next_index_url == build_next_index_url(current_index_url)
  IN IF next_index_url = current_index_url
     THEN /\ pc' = "done"
          /\ UNCHANGED <<current_index_url, pages_processed>>
     ELSE /\ current_index_url' = next_index_url
          /\ pages_processed' = pages_processed + 1
          /\ pc' = "index"

\* Lines 1197-1200: the while condition fails or the quota is reached.
IndexLoopExit ==
  /\ pc = "index"
  /\ ~PagesLeft(pages_processed) \/ QuotaReached(new_cards_saved)
  /\ pc' = "done"
  /\ opened' = NoUrl
  /\ timed_out' = FALSE
  /\ UNCHANGED fnVars
  /\ UNCHANGED <<slept, related_found>>
  /\ UNCHANGED <<prog, disk, initialKeys, cardHist, indexHist>>

\* Lines 1202-1209: the index page load times out.
IndexTimeout ==
  /\ pc = "index"
  /\ PagesLeft(pages_processed) /\ ~QuotaReached(new_cards_saved)
  /\ indexRenders' = indexRenders + 1
  /\ indexRequested' = indexRequested \cup {current_index_url}
  /\ pc' = "done"
  /\ opened' = NoUrl
  /\ timed_out' = TRUE
  /\ UNCHANGED fnVars
  /\ UNCHANGED <<slept, related_found>>
  /\ UNCHANGED <<prog, disk, initialKeys, cardHist>>

\* Lines 1202-1240: the index page is rendered and its card links collected.
IndexPage ==
  /\ pc = "index"
  /\ PagesLeft(pages_processed) /\ ~QuotaReached(new_cards_saved)
  /\ indexRenders' = indexRenders + 1
  /\ indexRequested' = indexRequested \cup {current_index_url}
  /\ \E card_hrefs \in SeqsUpTo(Hrefs, MaxLinks) :
       LET links == CardLinks(card_hrefs)
       IN IF Len(links) = 0
          THEN /\ Advance
               /\ UNCHANGED <<card_links, card_index>>
          ELSE /\ card_links' = links
               /\ card_index' = 1
               /\ pc' = "cards"
               /\ UNCHANGED <<current_index_url, pages_processed>>
  /\ opened' = NoUrl
  /\ timed_out' = FALSE
  /\ UNCHANGED fnVars
  /\ UNCHANGED <<slept, related_found>>
  /\ UNCHANGED <<index_data, seen_card_ids, new_cards_saved, page_tiles,
                 related_card_ids, related_index, metadata, caller, disk,
                 initialKeys, cardHist>>

(* ---------------------------- the card loop ---------------------------- *)
\* The card link met next and the id of its URL (line 1247).
CardUrl == card_links[card_index]
UrlCardId == extract_character_id_from_url(CardUrl)

CardMet ==
  /\ pc = "cards"
  /\ card_index <= Len(card_links)
  /\ ~QuotaReached(new_cards_saved)

\* Lines 1242-1245 and 1309-1317: the links are used up or the quota is
\* reached; the quota ends the run, otherwise the next index page follows.
CardsLoopEnd ==
  /\ pc = "cards"
  /\ card_index > Len(card_links) \/ QuotaReached(new_cards_saved)
  /\ IF QuotaReached(new_cards_saved)
     THEN /\ pc' = "done"
          /\ UNCHANGED <<current_index_url, pages_processed>>
     ELSE Advance
  /\ card_links' = <<>>
  /\ card_index' = 1
  /\ opened' = NoUrl
  /\ timed_out' = FALSE
  /\ UNCHANGED fnVars
  /\ UNCHANGED <<slept, related_found>>
  /\ UNCHANGED <<index_data, seen_card_ids, new_cards_saved, page_tiles,
                 related_card_ids, related_index, metadata, caller, disk,
                 initialKeys, cardHist, indexHist>>

\* Lines 1247-1250: the id of the link is in the seen-set; the page is not opened.
CardSkip ==
  /\ CardMet
  /\ AlreadySeen(UrlCardId, seen_card_ids)
  /\ skipped' = skipped \cup {CardUrl}
  /\ card_index' = card_index + 1
  /\ opened' = NoUrl
  /\ timed_out' = FALSE
  /\ UNCHANGED fnVars
  /\ UNCHANGED <<slept, related_found>>
  /\ UNCHANGED <<pc, index_data, seen_card_ids, new_cards_saved,
                 current_index_url, pages_processed, card_links, page_tiles,
                 related_card_ids, related_index, metadata, caller, disk,
                 initialKeys, requested, loaded, saves, indexHist>>

\* The card page load times out and the same link is tried again.
CardTimeoutRetry ==
  /\ CardMet
  /\ ~AlreadySeen(UrlCardId, seen_card_ids)
  /\ requested' = requested \cup {CardUrl}
  /\ opened' = CardUrl
  /\ timed_out' = TRUE
  /\ UNCHANGED fnVars
  /\ slept' = FALSE
  /\ UNCHANGED <<pc, prog, disk, initialKeys, loaded, skipped, saves,
                 indexHist, related_found>>

\* Lines 1253-1259: the card page load times out; the loop goes to the next link.
CardTimeout ==
  /\ CardMet
  /\ ~AlreadySeen(UrlCardId, seen_card_ids)
  /\ requested' = requested \cup {CardUrl}
  /\ opened' = CardUrl
  /\ timed_out' = TRUE
  /\ UNCHANGED fnVars
  /\ slept' = FALSE
  /\ card_index' = card_index + 1
  /\ UNCHANGED related_found
  /\ UNCHANGED <<pc, index_data, seen_card_ids, new_cards_saved,
                 current_index_url, pages_processed, card_links, page_tiles,
                 related_card_ids, related_index, metadata, caller, disk,
                 initialKeys, loaded, skipped, saves, indexHist>>

\* Lines 1253-1276: the card page is loaded and extracted; a record whose id is
\* not in the seen-set is marked seen and handed to the writer, otherwise the
\* related ids are read at once.
CardLoaded ==
  /\ CardMet
  /\ ~AlreadySeen(UrlCardId, seen_card_ids)
  /\ requested' = requested \cup {CardUrl}
  /\ opened' = CardUrl
  /\ timed_out' = FALSE
  /\ UNCHANGED fnVars
  /\ slept' = FALSE
  /\ \E tiles \in PageTileLists, name \in DisplayNames,
        srcs \in PageImgLists, stats \in PageStatsDicts :
       LET character_id == extract_character_id_from_url(CardUrl)
       IN IF scrape_raises(srcs)
          THEN /\ pc' = "scrape_raised"
               /\ UNCHANGED <<loaded, seen_card_ids, metadata, page_tiles,
                              caller, related_card_ids, related_index>>
          ELSE IF AlreadySeen(character_id, seen_card_ids)
          THEN /\ loaded' = loaded \cup {CardUrl}
               /\ related_card_ids' = extract_ids_from_col5_images(tiles)
               /\ related_index' = 1
               /\ pc' = "related"
               /\ UNCHANGED <<seen_card_ids, metadata, page_tiles, caller>>
          ELSE /\ loaded' = loaded \cup {CardUrl}
               /\ seen_card_ids' =
                    IF character_id # None
                    THEN seen_card_ids \cup {character_id} ELSE seen_card_ids
               /\ metadata' = [source_url |-> CardUrl,
                               character_id |-> character_id,
                               display_name |-> name,
                               stats |-> stats]
               /\ page_tiles' = tiles
               /\ caller' = "card"
               /\ pc' = "write_record"
               /\ UNCHANGED <<related_card_ids, related_index>>
  /\ UNCHANGED <<related_found, index_data, new_cards_saved, current_index_url,
                 pages_processed, card_links, card_index, disk, initialKeys,
                 skipped, saves, indexHist>>

(* ------------------ write_card_outputs_and_update_index ---------------- *)
\* Lines 1096-1167: the folder is made and PAGE_TEXT.txt written into it;
\* format_metadata_output (line 1136) is called outside any try, so when it
\* raises, main() ends there; otherwise the other record files are written and
\* a record with an id gets its index entry, in memory.
WriteRecord ==
  /\ pc = "write_record"
  /\ LET character_id == IdOrUnknown(metadata.character_id)
         folder == FolderName(metadata.display_name, metadata.character_id)
         formatted == format_metadata_output(
                        [stats |-> metadata.stats, rarity_detected |-> None]
                          @@ NoTexts)
     IN /\ files' = files \cup {folder}
        /\ IF formatted.raises # "none"
           THEN /\ pc' = "format_raised"
                /\ UNCHANGED <<saves, index_data, clock, documents>>
           ELSE /\ documents' = record_files_written(documents, folder)
                /\ saves' = BagAdd(saves, character_id)
                /\ clock' = clock + 1
                /\ IF HasIndexableId(character_id)
                   THEN /\ index_data' = Upsert(index_data, character_id,
                                                [url |-> metadata.source_url,
                                                 folder |-> folder,
                                                 saved_at |-> clock + 1])
                        /\ pc' = "save_index"
                   ELSE /\ pc' = "saved"
                        /\ UNCHANGED index_data
  /\ opened' = NoUrl
  /\ timed_out' = FALSE
  /\ UNCHANGED fnVars
  /\ UNCHANGED <<slept, related_found>>
  /\ UNCHANGED <<seen_card_ids, new_cards_saved, current_index_url,
                 pages_processed, card_links, card_index, page_tiles,
                 related_card_ids, related_index, metadata, caller, indexFile,
                 assets, prevFile, pendingText, initialKeys, requested, loaded,
                 skipped, indexHist>>

\* save_index, line 96: json.dumps serializes the index, write_text opens the
\* file for writing, which empties it.
SaveIndexOpen ==
  /\ pc = "save_index"
  /\ pendingText' = json_dumps(index_data)
  /\ prevFile' = indexFile
  /\ indexFile' = PartialFile
  /\ pc' = "save_write"
  /\ opened' = NoUrl
  /\ timed_out' = FALSE
  /\ UNCHANGED fnVars
  /\ UNCHANGED <<slept, related_found>>
  /\ UNCHANGED <<prog, files, documents, assets, clock, initialKeys, cardHist,
                 indexHist>>

\* save_index, line 96, then lines 1169-1170: the text is written and the file
\* closed; the assets folder is written.
SaveIndexWrite ==
  /\ pc = "save_write"
  /\ indexFile' = pendingText
  /\ assets' = assets \cup {FolderName(metadata.display_name, metadata.character_id)}
  /\ pc' = "saved"
  /\ opened' = NoUrl
  /\ timed_out' = FALSE
  /\ UNCHANGED fnVars
  /\ UNCHANGED <<slept, related_found>>
  /\ UNCHANGED <<prog, files, documents, clock, prevFile, pendingText,
                 initialKeys,
                 cardHist, indexHist>>

\* Lines 1271-1276 and 1302-1305: back in main(), the counter goes up; the card
\* loop reads the related ids of the page, the related loop sleeps and goes on.
Saved ==
  /\ pc = "saved"
  /\ new_cards_saved' = new_cards_saved + 1
  /\ IF caller = "card"
     THEN /\ related_card_ids' = extract_ids_from_col5_images(page_tiles)
          /\ related_index' = 1
     ELSE /\ related_index' = related_index + 1
          /\ UNCHANGED related_card_ids
  /\ pc' = "related"
  /\ slept' = IF caller = "related" THEN TRUE ELSE slept
  /\ opened' = NoUrl
  /\ timed_out' = FALSE
  /\ UNCHANGED fnVars
  /\ UNCHANGED related_found
  /\ UNCHANGED <<index_data, seen_card_ids, current_index_url, pages_processed,
                 card_links, card_index, page_tiles, metadata, caller, disk,
                 initialKeys, cardHist, indexHist>>

(* --------------------------- the related loop -------------------------- *)
RelatedId == related_card_ids[related_index]

RelatedMet ==
  /\ pc = "related"
  /\ related_index <= Len(related_card_ids)
  /\ ~QuotaReached(new_cards_saved)

\* Lines 1278-1280 and 1307: the related ids are used up or the quota is
\* reached; the card loop goes to its next link.
RelatedLoopEnd ==
  /\ pc = "related"
  /\ related_index > Len(related_card_ids) \/ QuotaReached(new_cards_saved)
  /\ card_index' = card_index + 1
  /\ related_card_ids' = <<>>
  /\ related_index' = 1
  /\ pc' = "cards"
  /\ slept' = TRUE
  /\ related_found' = {}
  /\ opened' = NoUrl
  /\ timed_out' = FALSE
  /\ UNCHANGED fnVars
  /\ UNCHANGED <<index_data, seen_card_ids, new_cards_saved, current_index_url,
                 pages_processed, card_links, page_tiles, metadata, caller,
                 disk, initialKeys, cardHist, indexHist>>

\* Lines 1281-1283: the related id is in the seen-set; its page is not opened.
RelatedSkip ==
  /\ RelatedMet
  /\ RelatedSeen(RelatedId, seen_card_ids)
  /\ skipped' = skipped \cup {RelatedUrl(RelatedId)}
  /\ related_index' = related_index + 1
  /\ opened' = NoUrl
  /\ timed_out' = FALSE
  /\ UNCHANGED fnVars
  /\ UNCHANGED <<slept, related_found>>
  /\ UNCHANGED <<pc, index_data, seen_card_ids, new_cards_saved,
                 current_index_url, pages_processed, card_links, card_index,
                 page_tiles, related_card_ids, metadata, caller, disk,
                 initialKeys, requested, loaded, saves, indexHist>>

\* Lines 1285-1292: the related page load times out.
RelatedTimeout ==
  /\ RelatedMet
  /\ ~RelatedSeen(RelatedId, seen_card_ids)
  /\ requested' = requested \cup {RelatedUrl(RelatedId)}
  /\ opened' = RelatedUrl(RelatedId)
  /\ timed_out' = TRUE
  /\ UNCHANGED fnVars
  /\ slept' = FALSE
  /\ related_index' = related_index + 1
  /\ UNCHANGED related_found
  /\ UNCHANGED <<pc, index_data, seen_card_ids, new_cards_saved,
                 current_index_url, pages_processed, card_links, card_index,
                 page_tiles, related_card_ids, metadata, caller, disk,
                 initialKeys, loaded, skipped, saves, indexHist>>

\* Lines 1285-1301: the related page is loaded and extracted; its id is marked
\* seen and the record handed to the writer.
RelatedLoaded ==
  /\ RelatedMet
  /\ ~RelatedSeen(RelatedId, seen_card_ids)
  /\ requested' = requested \cup {RelatedUrl(RelatedId)}
  /\ opened' = RelatedUrl(RelatedId)
  /\ timed_out' = FALSE
  /\ UNCHANGED fnVars
  /\ slept' = FALSE
  /\ \E tiles \in PageTileLists, name \in DisplayNames,
        srcs \in PageImgLists, stats \in PageStatsDicts :
       LET related_url == RelatedUrl(RelatedId)
           character_id == extract_character_id_from_url(related_url)
           related_character_id == RelatedCharacterId(character_id, RelatedId)
       IN IF scrape_raises(srcs)
          THEN /\ pc' = "scrape_raised"
               /\ UNCHANGED <<loaded, related_found, related_index,
                              seen_card_ids, metadata, caller>>
          ELSE IF related_character_id \in seen_card_ids
          THEN /\ loaded' = loaded \cup {related_url}
               /\ related_found' = related_found \cup TileRelatedIds(tiles)
               /\ related_index' = related_index + 1
               /\ UNCHANGED <<pc, seen_card_ids, metadata, caller>>
          ELSE /\ loaded' = loaded \cup {related_url}
               /\ related_found' = related_found \cup TileRelatedIds(tiles)
               /\ seen_card_ids' = seen_card_ids \cup {related_character_id}
               /\ metadata' = [source_url |-> related_url,
                               character_id |-> character_id,
                               display_name |-> name,
                               stats |-> stats]
               /\ caller' = "related"
               /\ pc' = "write_record"
               /\ UNCHANGED related_index
  /\ UNCHANGED <<index_data, new_cards_saved, current_index_url,
                 pages_processed, card_links, card_index, page_tiles,
                 related_card_ids, disk, initialKeys, skipped, saves, indexHist>>

Run ==
  \/ LoadIndex
  \/ IndexLoopExit
  \/ IndexTimeout
  \/ IndexPage
  \/ CardsLoopEnd
  \/ CardSkip
  \/ CardTimeout
  \/ CardLoaded
  \/ WriteRecord
  \/ SaveIndexOpen
  \/ SaveIndexWrite
  \/ Saved
  \/ RelatedLoopEnd
  \/ RelatedSkip
  \/ RelatedTimeout
  \/ RelatedLoaded

Next == Run

Spec == Init /\ [][Next]_vars

\* main() is one sequential thread: while a step is possible, one is taken.
FairSpec == Spec /\ WF_vars(Next)

(* ================== format_metadata_output on its own ================== *)
\* main() is not started.
CrawlIdle == CrawlInit /\ indexFile = MissingFile

FormatInputs ==
  { [stats |-> stats, rarity_detected |-> rarity] @@ NoTexts :
      stats \in StatsDicts, rarity \in Rarities }

FormatInit ==
  /\ CrawlIdle
  /\ fn_pc = "input"
  /\ fn_arg \in FormatInputs
  /\ fn_out = <<>>

\* Line 1136: formatted_metadata = format_metadata_output(metadata).
FormatMetadata ==
  /\ fn_pc = "input"
  /\ fn_out' = format_metadata_output(fn_arg)
  /\ fn_pc' = "formatted"
  /\ UNCHANGED <<fn_arg, crawlVars>>

FormatNext == FormatMetadata

FormatSpec == FormatInit /\ [][FormatNext]_vars

(* ======================= _split_sections on its own ==================== *)
SplitInit ==
  /\ CrawlIdle
  /\ fn_pc = "input"
  /\ fn_arg \in SeqsUpTo(TextChars, MaxText)
  /\ fn_out = <<>>

\* Line 937: sections_dict = _split_sections(page_text).
SplitSections ==
  /\ fn_pc = "input"
  /\ fn_out' = _split_sections(fn_arg)
  /\ fn_pc' = "split"
  /\ UNCHANGED <<fn_arg, crawlVars>>

SplitNext == SplitSections

SplitSpec == SplitInit /\ [][SplitNext]_vars

(* ======================= _dedup_sentences on its own =================== *)
DedupInit ==
  /\ CrawlIdle
  /\ fn_pc = "input"
  /\ fn_arg \in SeqsUpTo(SentenceChars, MaxSentenceText)
  /\ fn_out = <<>>

\* Line 201: leader_text = _dedup_sentences(leader_text).
DedupSentences ==
  /\ fn_pc = "input"
  /\ fn_out' = _dedup_sentences(fn_arg)
  /\ fn_pc' = "deduped"
  /\ UNCHANGED <<fn_arg, crawlVars>>

\* The result is handed to _dedup_sentences again.
DedupSentencesAgain ==
  /\ fn_pc = "deduped"
  /\ fn_arg' = fn_out
  /\ fn_out' = _dedup_sentences(fn_out)
  /\ fn_pc' = "deduped_again"
  /\ UNCHANGED crawlVars

\* src/scraper.py lines 177-185.
LeaderDedup ==
  /\ fn_pc = "input"
  /\ fn_out' = leader_dedup_sentences(fn_arg)
  /\ fn_pc' = "leader_deduped"
  /\ UNCHANGED <<fn_arg, crawlVars>>

\* The result is handed to the loop of src/scraper.py again.
LeaderDedupAgain ==
  /\ fn_pc = "leader_deduped"
  /\ fn_arg' = fn_out
  /\ fn_out' = leader_dedup_sentences(fn_out)
  /\ fn_pc' = "leader_deduped_again"
  /\ UNCHANGED crawlVars

DedupNext ==
  \/ DedupSentences
  \/ DedupSentencesAgain
  \/ LeaderDedup
  \/ LeaderDedupAgain

DedupSpec == DedupInit /\ [][DedupNext]_vars

(* ===================== the list cleaners on their own ================== *)
ListInit ==
  /\ CrawlIdle
  /\ fn_pc = "input"
  /\ fn_out = <<>>
  /\ \/ \E v \in SeqsUpTo(LinkLines, MaxListLen) :
          fn_arg = [kind |-> "links", val |-> v]
     \/ \E v \in MergedCategories :
          fn_arg = [kind |-> "categories", val |-> v]
     \/ \E v \in SeqsUpTo(ImageSrcs, MaxListLen) :
          fn_arg = [kind |-> "images", val |-> v]
     \/ \E v \in SeqsUpTo(DomainBlocks, MaxListLen) :
          fn_arg = [kind |-> "domains", val |-> v]

\* Line 968: link_skills = _clean_links(...).
CleanLinks ==
  /\ fn_pc = "input" /\ fn_arg.kind = "links"
  /\ fn_out' = _clean_links(fn_arg.val)
  /\ fn_pc' = "links"
  /\ UNCHANGED <<fn_arg, crawlVars>>

\* Line 503: return _clean_categories_python(merged_categories).
CleanCategories ==
  /\ fn_pc = "input" /\ fn_arg.kind = "categories"
  /\ fn_out' = _clean_categories_python(fn_arg.val)
  /\ fn_pc' = "categories"
  /\ UNCHANGED <<fn_arg, crawlVars>>

\* The result is handed to _clean_categories_python again.
CleanCategoriesAgain ==
  /\ fn_pc = "categories"
  /\ fn_arg' = [kind |-> "categories", val |-> fn_out]
  /\ fn_out' = _clean_categories_python(fn_out)
  /\ fn_pc' = "categories_again"
  /\ UNCHANGED crawlVars

\* Lines 974-983.
CollectImageUrls ==
  /\ fn_pc = "input" /\ fn_arg.kind = "images"
  /\ fn_out' = image_urls(fn_arg.val)
  /\ fn_pc' = "images"
  /\ UNCHANGED <<fn_arg, crawlVars>>

\* Lines 604-612.
UniqueDomains ==
  /\ fn_pc = "input" /\ fn_arg.kind = "domains"
  /\ fn_out' = unique_domains(fn_arg.val)
  /\ fn_pc' = "domains"
  /\ UNCHANGED <<fn_arg, crawlVars>>

ListNext ==
  \/ CleanLinks
  \/ CleanCategories
  \/ CleanCategoriesAgain
  \/ CollectImageUrls
  \/ UniqueDomains

ListSpec == ListInit /\ [][ListNext]_vars

(* ======================== extract_assets on its own ==================== *)
AssetInit ==
  /\ CrawlIdle
  /\ fn_pc = "input"
  /\ fn_arg \in [image_urls : SeqsUpTo(AssetUrls, MaxListLen),
                  character_id : AssetCharacterIds]
  /\ fn_out = <<>>

\* src/dokkan_api.py line 77: assets = extract_assets(images, ...).
ExtractAssets ==
  /\ fn_pc = "input"
  /\ fn_out' = extract_assets(fn_arg.image_urls, fn_arg.character_id)
  /\ fn_pc' = "assets"
  /\ UNCHANGED <<fn_arg, crawlVars>>

AssetNext == ExtractAssets

AssetSpec == AssetInit /\ [][AssetNext]_vars

(* ========================= the stats on their own ====================== *)
StatsInit ==
  /\ CrawlIdle
  /\ fn_pc = "input"
  /\ fn_arg \in StatsTables
  /\ fn_out = <<>>

\* Line 971: stats_dict = parse_stats_from_soup(soup, page_text).
ParseStats ==
  /\ fn_pc = "input"
  /\ fn_out' = [stats |-> parse_stats_from_soup(fn_arg)]
  /\ fn_pc' = "stats_parsed"
  /\ UNCHANGED <<fn_arg, crawlVars>>

\* Line 913: "base_statistics": format_stats_by_percentage(metadata.get("stats", {})).
FormatStats ==
  /\ fn_pc = "stats_parsed"
  /\ fn_out' = [stats |-> fn_out.stats,
                base_statistics |-> format_stats_by_percentage(fn_out.stats)]
  /\ fn_pc' = "stats_formatted"
  /\ UNCHANGED <<fn_arg, crawlVars>>

StatsNext ==
  \/ ParseStats
  \/ FormatStats

StatsSpec == StatsInit /\ [][StatsNext]_vars

(* ================== the text fields of a record on their own =========== *)
RecordInit ==
  /\ CrawlIdle
  /\ fn_pc = "input"
  /\ fn_arg \in TextPages
  /\ fn_out = <<>>

\* Lines 1262 and 1295: metadata = scrape_card_from_html(page_html, url).
ScrapeCard ==
  /\ fn_pc = "input"
  /\ fn_out' = scrape_card_from_html(fn_arg)
  /\ fn_pc' = "scraped"
  /\ UNCHANGED <<fn_arg, crawlVars>>

\* Line 1136: formatted_metadata = format_metadata_output(metadata).
AssembleRecord ==
  /\ fn_pc = "scraped"
  /\ fn_arg' = fn_out
  /\ fn_out' = format_metadata_output(fn_out)
  /\ fn_pc' = "assembled"
  /\ UNCHANGED crawlVars

RecordNext ==
  \/ ScrapeCard
  \/ AssembleRecord

RecordSpec == RecordInit /\ [][RecordNext]_vars

(* ======================= _clean_activation on its own ================== *)
ActivationInit ==
  /\ CrawlIdle
  /\ fn_pc = "input"
  /\ fn_arg \in ActivationBlocks
  /\ fn_out = <<>>

\* Line 967: activation_conditions = _clean_activation(...).
CleanActivation ==
  /\ fn_pc = "input"
  /\ fn_out' = _clean_activation(fn_arg)
  /\ fn_pc' = "activation"
  /\ UNCHANGED <<fn_arg, crawlVars>>

ActivationNext == CleanActivation

ActivationSpec == ActivationInit /\ [][ActivationNext]_vars

(* ========================= parse_eza_info on its own =================== *)
EzaInit ==
  /\ CrawlIdle
  /\ fn_pc = "input"
  /\ fn_arg \in EzaDoms
  /\ fn_out = <<>>

\* Line 1015: eza_info = parse_eza_info(soup).
ParseEzaInfo ==
  /\ fn_pc = "input"
  /\ fn_out' = parse_eza_info(fn_arg)
  /\ fn_pc' = "eza"
  /\ UNCHANGED <<fn_arg, crawlVars>>

EzaNext == ParseEzaInfo

EzaSpec == EzaInit /\ [][EzaNext]_vars

(* ======================= properties of the crawl ======================= *)
\* The id a card URL resolves to.
IdOf(u) == extract_character_id_from_url(u)

\* The card URLs met so far: opened, or passed over because of the seen-set.
Met == requested \cup skipped

\* The URL of the card link of card 1, and the URL the related loop builds for it.
LinkOfCard1 == urljoin(<<"/cards/", "1", "?">>)
RelatedOfCard1 == RelatedUrl(<<"1">>)

\* What load_index() would read back from a file.
ReadBack(file) == load_index(file).val

RECURSIVE BagSize(_)
\* The number of elements of a bag.
BagSize(b) ==
  IF DOMAIN b = {} THEN 0
  ELSE LET k == CHOOSE x \in DOMAIN b : TRUE
       IN b[k] + BagSize([j \in DOMAIN b \ {k} |-> b[j]])

\* How many steps main() is from Done once no page may be requested: it leaves
\* the related loop, then the card loop, then the while loop.
StepsToDone(p) ==
  CASE p = "done" -> 0 [] p = "index" -> 1 [] p = "cards" -> 1
    [] p = "related" -> 2 [] OTHER -> 3

\* C1: no card page of an id that is in the persisted index when the run starts
\* is opened, extracted or saved, whether the id is met as a card link or as a
\* related id.
C1_IndexedIdsNotReopened ==
  /\ \A u \in requested \cup loaded : IdOf(u) \notin initialKeys
  /\ opened # NoUrl => IdOf(opened) \notin initialKeys
  /\ \A k \in DOMAIN saves : k \notin initialKeys

\* C1 witness: card 1 is in the index at startup and was met both as a card
\* link and as a related id, and passed over both times.
C1_Witness ==
  /\ initialKeys = {<<"1">>}
  /\ LinkOfCard1 \in skipped
  /\ RelatedOfCard1 \in skipped

\* C2 as stated: of two distinct card URLs that resolve to the same id, the
\* second one met in the run is not extracted.
C2_SecondUrlSkipped ==
  [][\A u \in loaded' \ loaded :
       u \notin Met => ~\E v \in Met : IdOf(v) # None /\ IdOf(v) = IdOf(u)]_vars

\* C2 amended: of two distinct card URLs that resolve to the same id, the second
\* one met is not opened (so neither extracted nor saved) unless every load of
\* the first timed out; and each id is saved at most once per run.
C2_SecondUrlSkippedUnlessTimeout ==
  /\ [](\A k \in DOMAIN saves : k # Unknown => saves[k] <= 1)
  /\ [][opened' # NoUrl /\ opened' \notin Met =>
          \A v \in Met : IdOf(v) # None /\ IdOf(v) = IdOf(opened') =>
                           v \notin loaded /\ v \notin skipped]_vars

\* C2 witness: the card link of card 1 was loaded and saved, and the related URL
\* of card 1, met later, was passed over.
C2_Witness ==
  /\ LinkOfCard1 \in loaded
  /\ <<"1">> \in DOMAIN saves
  /\ RelatedOfCard1 \in skipped
  /\ RelatedOfCard1 \notin requested

\* C3: no step replaces or changes an index entry: every entry the index holds
\* is the same after the step.
C3_EntriesNeverChange ==
  [][\A k \in DOMAIN index_data :
       k \in DOMAIN index_data' /\ index_data'[k] = index_data[k]]_vars

\* C3 witness: the index holds an entry created in the run, its id was met
\* again afterwards, and the run went on to a later index page.
C3_Witness ==
  /\ pages_processed > 0
  /\ \E k \in DOMAIN index_data \ initialKeys :
       \E u \in skipped : IdOf(u) = k

\* C4 as stated: whenever the crawl is about to request a page, the index file
\* holds exactly the entries of the in-memory index; and wherever the run is
\* stopped by a crash, at most one entry of the in-memory index (the one whose
\* write had not completed) is missing from the file.
C4_PersistedAfterEveryEntry ==
  /\ pc \in {"index", "cards", "related"} => ReadBack(indexFile) = index_data
  /\ pc # "start" =>
       Cardinality(DOMAIN index_data \ DOMAIN ReadBack(indexFile)) <= 1

\* The first half of C4 alone: at every point where a page is requested the file
\* reads back as the in-memory index.
DiskMatchesIndexAtRequests ==
  pc \in {"index", "cards", "related"} => ReadBack(indexFile) = index_data

\* C5 as stated: wherever a crash stops the run, the index file holds either the
\* complete content it had before the last save_index() began or the complete
\* text that save_index() serialized.
C5_UpsertAtomic == indexFile \in {prevFile, pendingText}

\* C6 as stated: loading the index never ends the run, whatever the file holds,
\* and a missing or corrupt file gives an empty index.
C6_LoadNeverFatal ==
  /\ pc # "fatal"
  /\ (/\ pc = "index"
      /\ indexRenders = 0
      /\ indexFile.kind \in {"missing", "unreadable", "malformed"})
       => index_data = EmptyIndex /\ seen_card_ids = {}

\* The part of C6 that holds: a missing or corrupt file gives an empty index and
\* the run goes on.
MissingOrCorruptFileGivesEmptyIndex ==
  /\ pc = "fatal" => prevFile.kind = "array"
  /\ (/\ pc = "index"
      /\ indexRenders = 0
      /\ indexFile.kind \in {"missing", "unreadable", "malformed"})
       => index_data = EmptyIndex /\ seen_card_ids = {}

C8_QuotaStopsRun ==
  /\ [](/\ new_cards_saved <= MAX_NEW_CARDS_TO_SAVE
        /\ BagSize(saves) <= MAX_NEW_CARDS_TO_SAVE
        /\ (new_cards_saved >= MAX_NEW_CARDS_TO_SAVE =>
              /\ pc \in {"related", "cards", "done"}
              /\ (pc # "done" => ENABLED Next)))
  /\ [][new_cards_saved >= MAX_NEW_CARDS_TO_SAVE =>
          /\ opened' = NoUrl
          /\ indexRenders' = indexRenders
          /\ saves' = saves
          /\ StepsToDone(pc') < StepsToDone(pc)]_vars

\* C8 witness: the quota is reached while a card link of the page is still to
\* be met.
C8_Witness ==
  /\ pc = "cards"
  /\ new_cards_saved = MAX_NEW_CARDS_TO_SAVE
  /\ card_index <= Len(card_links)

\* C9: at most MAX_PAGES_TO_SCRAPE index pages are requested in one run, and
\* once the page count reaches the ceiling the next step, which is possible,
\* ends the run in Done without requesting an index page (or any page).
C9_PageCeiling ==
  /\ [](/\ indexRenders <= MAX_PAGES_TO_SCRAPE
        /\ Cardinality(indexRequested) <= MAX_PAGES_TO_SCRAPE
        /\ (pages_processed >= MAX_PAGES_TO_SCRAPE =>
              /\ pc \in {"index", "done"}
              /\ (pc # "done" => ENABLED Next)))
  /\ [][pages_processed >= MAX_PAGES_TO_SCRAPE =>
          /\ indexRenders' = indexRenders
          /\ opened' = NoUrl
          /\ pc' = "done"]_vars

\* C9 witness: the run is done after the ceiling's number of index pages, the
\* quota not reached.
C9_Witness ==
  /\ pc = "done"
  /\ pages_processed = MAX_PAGES_TO_SCRAPE
  /\ indexRenders = MAX_PAGES_TO_SCRAPE
  /\ new_cards_saved < MAX_NEW_CARDS_TO_SAVE

\* The ids on the tiles after the first of the card page being processed.
IdsOnCardTiles == {page_tiles[i] : i \in 2..Len(page_tiles)} \ {None}

\* The related loop of the card being processed ends with the quota not reached.
RelatedLoopDone ==
  /\ pc = "related"
  /\ pc' = "cards"
  /\ new_cards_saved < MAX_NEW_CARDS_TO_SAVE

CardLoadTimedOut == timed_out' /\ opened' # NoUrl

\* The card URLs requested whose page was never read: every load timed out.
NeverLoaded == requested \ loaded

\* A timeout of a card or related page loses that page only: nothing is saved
\* or marked seen, and the loop it occurred in stays where it is in the run.
CardTimeoutLosesOnlyThatPage ==
  [][CardLoadTimedOut =>
       /\ pc' = pc /\ pc \in {"cards", "related"}
       /\ UNCHANGED <<index_data, seen_card_ids, new_cards_saved, saves, disk,
                      current_index_url, pages_processed>>]_vars

\* C12 as stated: a navigation timeout on one page load (index page, card page
\* or related page) does not end the run: after it main() is in one of its
\* loops, not at its end.
C12_TimeoutDoesNotEndRun ==
  [][timed_out' => pc' \in {"index", "cards", "related"}]_vars

\* C13 as stated: a card whose page load timed out is not requested again in
\* the same run, under the same URL or another URL of the same id.
C13_TimedOutNotRequestedAgain ==
  [][opened' # NoUrl =>
       \A u \in NeverLoaded :
          u # opened' /\ (IdOf(u) = None \/ IdOf(u) # IdOf(opened'))]_vars

\* C13 amended: there is no retry of a failed load: the step in which a card
\* or related page times out moves its loop on to the next link or related id,
\* and leaves the seen-set, the index and the counter as they are (so the card
\* is opened again only when it is met again, as a link or as a related id).
C13_NoRetryOfFailedLoad ==
  [][CardLoadTimedOut =>
       /\ \/ /\ pc = "cards" /\ pc' = "cards"
             /\ card_links' = card_links
             /\ card_index' = card_index + 1
          \/ /\ pc = "related" /\ pc' = "related"
             /\ related_card_ids' = related_card_ids
             /\ related_index' = related_index + 1
       /\ UNCHANGED <<seen_card_ids, index_data, new_cards_saved>>]_vars

\* C13 witness: the load of the link of card 1 timed out, card 1 was met again
\* as a related id, and that load has just timed out as well.
C13_Witness ==
  /\ timed_out
  /\ opened = RelatedOfCard1
  /\ LinkOfCard1 \in NeverLoaded
  /\ pc = "related"

\* C14 as stated: between every two consecutive card page visits the delay is
\* slept: when a card page is requested and one was requested before it in
\* the run, time.sleep(DELAY_BETWEEN_CARDS_SEC) has run in between.
C14_DelayBetweenVisits ==
  [][opened' # NoUrl /\ requested # {} => slept]_vars

\* C15 as stated: an exception raised while one field is extracted does not
\* end the run (the field is defaulted, the record saved): main() never ends
\* on an exception of scrape_card_from_html.
C15_FieldFailureDoesNotEndRun == pc # "scrape_raised"

\* C16 as stated: format_metadata_output never fails, whatever the labels of
\* the stats columns.
C16_FormatNeverFails == fn_pc = "formatted" => fn_out.raises = "none"

\* format_metadata_output fails only on a stats label that holds a percent sign
\* and no number.
FormatFailsOnlyOnLabel ==
  fn_pc = "formatted" /\ fn_out.raises # "none" =>
    \E n \in StatNames : <<"Max", "%">> \in DOMAIN fn_arg.stats[n]

\* The lines of the text _split_sections was called with, whitespace folded.
ArgLines == text_lines(fn_arg)

\* The place of the first header line after place i, or the place past the end.
NextHeaderAfter(i) ==
  LET later == {j \in (i + 1)..Len(ArgLines) : ArgLines[j] \in SECTION_HEADERS}
  IN IF later = {} THEN Len(ArgLines) + 1 ELSE MinOf(later)

\* b is the lines strictly between places i and e that are not empty, in order.
IsNonEmptyLinesBetween(b, i, e) ==
  LET kept == {j \in (i + 1)..(e - 1) : ArgLines[j] # <<>>}
  IN /\ Len(b) = Cardinality(kept)
     /\ \A k \in 1..Len(b) :
          \E j \in kept :
             /\ b[k] = ArgLines[j]
             /\ Cardinality({m \in kept : m <= j}) = k

\* C17: _split_sections gives a section to exactly the headers that occur as a
\* line; the section of a header is the non-empty lines between an occurrence
\* of it and the next header line (or the end of the text); no section holds
\* an empty line or a header line.
C17_SectionsAreLinesBetweenHeaders ==
  fn_pc = "split" =>
    /\ DOMAIN fn_out = SECTION_HEADERS \cap Range(ArgLines)
    /\ \A h \in DOMAIN fn_out :
         /\ \E i \in 1..Len(ArgLines) :
              /\ ArgLines[i] = h
              /\ IsNonEmptyLinesBetween(fn_out[h], i, NextHeaderAfter(i))
         /\ \A k \in 1..Len(fn_out[h]) :
              fn_out[h][k] # <<>> /\ fn_out[h][k] \notin SECTION_HEADERS

\* C17 witness: a header line, an empty line and a content line: the section
\* holds the content line only, and the other headers have no section.
C17_Witness ==
  /\ fn_pc = "split"
  /\ fn_arg = <<"Stats", "\n", "\n", " ", "a">>
  /\ DOMAIN fn_out = {<<"Stats">>}
  /\ fn_out[<<"Stats">>] = <<<<"a">>>>

\* The place of the first occurrence of x in s.
FirstIndex(s, x) == MinOf({i \in 1..Len(s) : s[i] = x})

\* The sentences of text b are those of text a, each once, in the order of
\* their first occurrence in a.
IsFirstOccurrencesOf(b, a, ends) ==
  LET P == sentence_parts(a, ends)
      Q == sentence_parts(b, ends)
  IN /\ Range(Q) = Range(P)
     /\ \A i, j \in 1..Len(Q) :
          i < j => Q[i] # Q[j] /\ FirstIndex(P, Q[i]) < FirstIndex(P, Q[j])

\* C18: sentence dedup keeps the first occurrence of each sentence, in the
\* original order, and is idempotent: run on its own result it returns it
\* unchanged.  Both for _dedup_sentences and for the loop in _clean_leader of
\* src/scraper.py.
C18_DedupSentencesIdempotent ==
  /\ fn_pc = "deduped" => IsFirstOccurrencesOf(fn_out, fn_arg, SentenceEnds)
  /\ fn_pc = "leader_deduped" =>
       IsFirstOccurrencesOf(fn_out, fn_arg, LeaderSentenceEnds)
  /\ fn_pc \in {"deduped_again", "leader_deduped_again"} => fn_out = fn_arg

\* C18 witness: a text of two different sentences, itself a result of
\* _dedup_sentences, was deduplicated again and came back unchanged.
C18_Witness ==
  /\ fn_pc = "deduped_again"
  /\ fn_arg = <<".", " ", "!">>
  /\ fn_out = <<".", " ", "!">>

\* C19 as stated: category filtering is idempotent: run on its own result it
\* returns that list unchanged.
C19_CategoryFilterIdempotent ==
  fn_pc = "categories_again" => fn_out = fn_arg.val

\* Category filtering never lengthens a list, and on a list whose labels hold
\* no line break it is idempotent.
CategoryFilterIdempotentOnPlainLabels ==
  fn_pc = "categories_again" =>
    /\ Len(fn_out) <= Len(fn_arg.val)
    /\ (\A i \in 1..Len(fn_arg.val) : "\n" \notin Range(fn_arg.val[i]))
         => fn_out = fn_arg.val

\* s holds no element twice.
NoRepeats(s) == \A i, j \in 1..Len(s) : i # j => s[i] # s[j]

\* out holds the elements of the sequence cands once each, in the order of
\* their first occurrence in it.
IsFirstSeenOrder(out, cands) ==
  /\ NoRepeats(out)
  /\ Range(out) = Range(cands)
  /\ \A i, j \in 1..Len(out) :
       i < j => FirstIndex(cands, out[i]) < FirstIndex(cands, out[j])

\* The entries each loop chooses from, in the order it meets them.
LinkCandidates ==
  LET c == [i \in 1..Len(fn_arg.val) |-> _condense_spaces(fn_arg.val[i])]
  IN SelectSeqIn(c, Range(c) \ {<<>>})

CategoryCandidates ==
  LET c == [i \in 1..Len(fn_arg.val) |-> clean_category(fn_arg.val[i])]
  IN SelectSeqIn(c, {x \in Range(c) : ~category_dropped(x)})

ImageCandidates ==
  LET with_src == SelectSeqIn(fn_arg.val, Range(fn_arg.val) \ {<<>>})
  IN [i \in 1..Len(with_src) |-> absolute_image_url(with_src[i])]

DomainKeys(domains) == [i \in 1..Len(domains) |-> domain_key(domains[i])]

\* C20: link skills, categories and image URLs hold no two equal strings, the
\* domains no two entries with the same name and effect, and each list is in
\* first-seen order.
C20_NoDuplicatesFirstSeenOrder ==
  /\ fn_pc = "links" => IsFirstSeenOrder(fn_out, LinkCandidates)
  /\ fn_pc = "categories" => IsFirstSeenOrder(fn_out, CategoryCandidates)
  /\ fn_pc = "images" => IsFirstSeenOrder(fn_out, ImageCandidates)
  /\ fn_pc = "domains" =>
       /\ IsFirstSeenOrder(DomainKeys(fn_out), DomainKeys(fn_arg.val))
       /\ \A i, j \in 1..Len(fn_out) :
            i # j => <<fn_out[i].name, fn_out[i].effect>>
                     # <<fn_out[j].name, fn_out[j].effect>>
       /\ \A i \in 1..Len(fn_out) :
            fn_out[i] = fn_arg.val[FirstIndex(DomainKeys(fn_arg.val),
                                              domain_key(fn_out[i]))]

\* C20 witness: a link skill met twice, with another one in between, is kept
\* once, before the other one.
C20_Witness ==
  /\ fn_pc = "links"
  /\ fn_arg.val = <<<<"A", " ", "B">>, <<"B">>, <<"A", " ", "B">>>>
  /\ fn_out = <<<<"A", " ", "B">>, <<"B">>>>

\* The text holds the string h somewhere.
Occurs(h, text) ==
  \E i \in 1..(Len(text) - Len(h) + 1) : SubSeq(text, i, i + Len(h) - 1) = h

\* C25 as stated: the activation-conditions text _clean_activation returns holds
\* no occurrence of any section header.
C25_ActivationHoldsNoHeader ==
  fn_pc = "activation" /\ fn_out # None =>
    \A h \in SECTION_HEADERS : ~Occurs(h, fn_out)

\* No header that stands in the joined text is left where it stood: every
\* header in the result was put together by cutting another header out from
\* between its halves.
HeaderLeftOnlyByJoiningHalves ==
  fn_pc = "activation" /\ fn_out # None =>
    \A h \in SECTION_HEADERS :
       Occurs(h, fn_out) =>
         \E g \in SECTION_HEADERS \ {h} :
            Occurs(g, _condense_spaces(join(fn_arg, <<" ">>)))

\* The rows of the page that hold both PRE-EZA and EZA.
ToggleRows ==
  {i \in 1..Len(fn_arg.rows) :
     text_holds(fn_arg.rows[i].words, "PRE-EZA")
       /\ text_holds(fn_arg.rows[i].words, "EZA")}

\* The row after the first toggle row mentions Step: and its selected value
\* reads as the integer n.
StepRowSelects(n) ==
  /\ ToggleRows # {}
  /\ MinOf(ToggleRows) < Len(fn_arg.rows)
  /\ LET step_row == fn_arg.rows[MinOf(ToggleRows) + 1]
     IN /\ "Step:" \in step_row.words
        /\ step_row.selected \in
             { <<"4">>, <<"0", "4">>, <<"3">>, <<"5">>, <<"-", "4">> }
        /\ n = CASE step_row.selected \in { <<"4">>, <<"0", "4">> } -> 4
                 [] step_row.selected = <<"3">> -> 3
                 [] step_row.selected = <<"5">> -> 5
                 [] OTHER -> 0 - 4

\* C23: has_eza is true exactly when a row holds PRE-EZA and EZA; when the row
\* after it mentions Step: and its selected value is the integer n, eza_step
\* is n and is_seza is true exactly when n is 4; is_seza implies has_eza and
\* step 4; a step that is not None implies has_eza.
C23_EzaStepFourIsSeza ==
  fn_pc = "eza" =>
    /\ fn_out.has_eza = (ToggleRows # {})
    /\ \A n \in -4..5 :
         StepRowSelects(n) =>
           fn_out.eza_step = Step(n) /\ fn_out.is_seza = (n = 4)
    /\ fn_out.is_seza => fn_out.has_eza /\ fn_out.eza_step = Step(4)
    /\ fn_out.eza_step # NoStep => fn_out.has_eza

\* C23 witness: the toggle row is followed by a Step: row whose selected value
\* is 4: has_eza, step 4, is_seza.
C23_Witness ==
  /\ fn_pc = "eza"
  /\ Len(fn_arg.rows) = 2
  /\ fn_arg.rows[1].words = {"PRE-EZA", "EZA"}
  /\ fn_arg.rows[2] = [words |-> {"Step:"}, selected |-> <<"4">>]
  /\ fn_out.has_eza /\ fn_out.eza_step = Step(4) /\ fn_out.is_seza

\* The optional text fields of the assembled record, the domains apart.
SkillTexts(record) ==
  { record.leader_ability.leader_skill,
    record.attack_techniques.super_attack.name,
    record.attack_techniques.super_attack.effect,
    record.attack_techniques.ultra_super_attack.name,
    record.attack_techniques.ultra_super_attack.effect,
    record.passive_skill.name,
    record.active_skill.name,
    record.active_skill.effect,
    record.active_skill.activation_conditions,
    record.extreme_z_awakening.original_release_date,
    record.extreme_z_awakening.eza_release_date }

DomainTexts(record) ==
  UNION { {record.domain_effects[i].name, record.domain_effects[i].effect} :
            i \in 1..Len(record.domain_effects) }

\* C21 as stated: in every assembled record each optional text field (leader
\* skill, attack names and effects, passive and active skill names and
\* effects, activation conditions, domain name and effect, EZA dates) is a
\* non-empty string or None, never the empty string.
C21_OptionalTextNeverEmpty ==
  fn_pc = "assembled" => <<>> \notin SkillTexts(fn_out) \cup DomainTexts(fn_out)

\* All optional text fields but those of the domains are non-empty or None.
SkillTextsNeverEmpty == fn_pc = "assembled" => <<>> \notin SkillTexts(fn_out)

\* The number a cell text stands for, 0 for a text that is no number.
CellNumber(cell) ==
  CASE cell = <<"1", "0", "0">> -> 100 [] cell = <<"2", "0", "0">> -> 200
    [] cell = <<"1", "5", "0">> -> 150 [] cell = <<"3", "0", "0">> -> 300
    [] cell = <<"1", ",", "5", "0", "0">> -> 1500 [] OTHER -> 0

\* The key of the map of column label p% in the formatted stats.
HiddenPotentialKey(label) ==
  <<"hidden_potential_">> \o SubSeq(label, 1, Len(label) - 1) \o <<"_percent">>

\* The value the formatted stats hold for row n under column label, 0 for none.
FormattedValue(n, label) ==
  LET f == fn_out.base_statistics
  IN IF label \in BaseColumns
     THEN IF n \in DOMAIN f.base_stats /\ label \in DOMAIN f.base_stats[n]
          THEN f.base_stats[n][label] ELSE 0
     ELSE IF /\ HiddenPotentialKey(label) \in DOMAIN f.levels
             /\ n \in DOMAIN f.levels[HiddenPotentialKey(label)]
          THEN f.levels[HiddenPotentialKey(label)][n] ELSE 0

\* C22: the i-th value cell of an HP, ATK or DEF row is stored under the i-th
\* header label after "Stats", as the number it stands for with the thousands
\* separators dropped; a cell that is no number or has no header is passed
\* over; the formatted stats hold the Base Min and Base Max values of the row
\* in base_stats.<row> and the value under p% in
\* hidden_potential_<p>_percent.<row>, and nothing for a passed-over cell.
C22_StatsPairedByPosition ==
  fn_pc = "stats_formatted" =>
    /\ fn_out.base_statistics.raises = "none"
    /\ \A r \in 1..Len(fn_arg.rows) :
         LET row == fn_arg.rows[r]
         IN row.name \in StatNames =>
              \A i \in 1..(Len(fn_arg.headers) - 1) :
                 LET label == fn_arg.headers[i + 1]
                 IN /\ FormattedValue(row.name, label) =
                         (IF i <= Len(row.cells) THEN CellNumber(row.cells[i]) ELSE 0)
                    /\ (label \in DOMAIN fn_out.stats[row.name])
                         = (i <= Len(row.cells) /\ CellNumber(row.cells[i]) # 0)
    /\ \A r \in 1..Len(fn_arg.rows) :
         fn_arg.rows[r].name \notin StatNames =>
           \A n \in StatNames :
              (\A q \in 1..Len(fn_arg.rows) : fn_arg.rows[q].name # n) =>
                 DOMAIN fn_out.stats[n] = {}

\* C22 witness: the row HP 100 200 150 300 under Base Min, Base Max, 55% and
\* 100%: base_stats.HP is {Base Min: 100, Base Max: 200} and
\* hidden_potential_55_percent.HP is 150.
C22_Witness ==
  /\ fn_pc = "stats_formatted"
  /\ Len(fn_arg.headers) = 5
  /\ fn_arg.rows = <<[name |-> "HP",
                      cells |-> << <<"1", "0", "0">>, <<"2", "0", "0">>,
                                   <<"1", "5", "0">>, <<"3", "0", "0">> >>]>>
  /\ fn_out.base_statistics.base_stats["HP"] =
       [l \in BaseColumns |-> IF l = <<"Base Min">> THEN 100 ELSE 200]
  /\ fn_out.base_statistics.levels[<<"hidden_potential_", "5", "5", "_percent">>]["HP"] = 150

\* The words that put a URL in a category.
CategoryWords(c) ==
  CASE c = "rarity" -> {"cha_rare_sm_", "cha_rare_"}
    [] c = "type" -> {"cha_type_icon_"}
    [] c = "background" -> {"_bg."}
    [] c = "character" -> {"_character."}
    [] c = "effect" -> {"_effect."}
    [] OTHER -> {"_cutin."}

IsIcon(u) == \E w \in CategoryWords("rarity") \cup CategoryWords("type") :
               w \in Range(lower(u))

\* The places of the list whose URL matches category c by a rule qualified by
\* the character id (for the icons: by the icon's word), and those that match
\* by the looser rule of the character card path.
IdMatches(c) ==
  {i \in 1..Len(fn_arg.image_urls) :
     LET u == fn_arg.image_urls[i]
     IN /\ \E w \in CategoryWords(c) : w \in Range(lower(u))
        /\ c \notin {"rarity", "type"} =>
             /\ ~IsIcon(u)
             /\ fn_arg.character_id # ""
             /\ fn_arg.character_id \in Range(u)}

LooseMatches(c) ==
  {i \in 1..Len(fn_arg.image_urls) :
     LET u == fn_arg.image_urls[i]
     IN /\ c \notin {"rarity", "type"}
        /\ \E w \in CategoryWords(c) : w \in Range(lower(u))
        /\ ~IsIcon(u)
        /\ "/character/card/" \in Range(lower(u))}

AssetCategories ==
  {"rarity", "type", "background", "character", "effect", "cutin"}

\* C24 as stated: for each category the URL returned is the first of the list
\* that matches by an id-qualified rule, or, when none does, the first that
\* matches by the looser rule; a later matching URL never replaces it.
C24_FirstMatchWins ==
  fn_pc = "assets" =>
    \A c \in AssetCategories :
       fn_out[c] =
         IF IdMatches(c) # {} THEN fn_arg.image_urls[MinOf(IdMatches(c))]
         ELSE IF LooseMatches(c) # {}
         THEN fn_arg.image_urls[MinOf(LooseMatches(c))]
         ELSE None

\* What holds instead: the icons are the first match; of the URLs that hold
\* the character id the last match of a category is returned; the first loose
\* match is returned when no URL with the id matches.
LastIdMatchWins ==
  fn_pc = "assets" =>
    \A c \in AssetCategories :
       fn_out[c] =
         IF IdMatches(c) # {}
         THEN fn_arg.image_urls[IF c \in {"rarity", "type"}
                                THEN MinOf(IdMatches(c)) ELSE MaxOf(IdMatches(c))]
         ELSE IF LooseMatches(c) # {}
         THEN fn_arg.image_urls[MinOf(LooseMatches(c))]
         ELSE None

(* ------------------------ the frontier and the index -------------------- *)
\* The states in which main() is about to decide on a page: to render the
\* index page (line 1202), to open or skip a card link (lines 1247-1253) or a
\* related id (lines 1281-1285).
AtDecision == pc \in {"index", "cards", "related"}

\* C26: wherever the crawl decides whether to open or save a card, every id
\* with an index entry is in the seen-set, and in every state from which a page
\* is requested the seen-set is exactly the set of index keys.
C26_SeenReconciledWithIndex ==
  /\ AtDecision => DOMAIN index_data \subseteq seen_card_ids
  /\ AtDecision => seen_card_ids = DOMAIN index_data

\* A card page is about to be requested in a run that loaded a non-empty index
\* and has added an entry of its own.
C26_Witness ==
  /\ CardMet
  /\ ~AlreadySeen(UrlCardId, seen_card_ids)
  /\ initialKeys # {}
  /\ DOMAIN index_data # initialKeys
  /\ seen_card_ids = DOMAIN index_data

(* ------------------------- the new-record counter ----------------------- *)
\* The index entries created during the run, and the records the run wrote
\* into the "unknown" bucket (no index entry, line 1158).
EntriesCreated == Cardinality(DOMAIN index_data \ initialKeys)
UnknownSaves == IF Unknown \in DOMAIN saves THEN saves[Unknown] ELSE 0

\* The states in which new_cards_saved is compared with the quota (lines 1197,
\* 1199, 1243, 1279, 1309).
AtQuotaTest == pc \in {"index", "cards", "related", "done"}

\* C30 as stated: wherever the counter is compared with the quota it equals the
\* number of index entries created during the run.
C30_CounterEqualsEntriesCreated ==
  AtQuotaTest => new_cards_saved = EntriesCreated

\* C30, amended: wherever the counter is compared with the quota it equals the
\* number of records written during the run, which is the number of index
\* entries created plus the number of records written into the "unknown"
\* bucket; while a record is being written the counter is at most one behind.
C30_CounterCountsRecordsWritten ==
  /\ AtQuotaTest =>
       /\ new_cards_saved = BagSize(saves)
       /\ new_cards_saved = EntriesCreated + UnknownSaves
  /\ new_cards_saved <= BagSize(saves)
  /\ BagSize(saves) <= new_cards_saved + 1

\* The counter is compared with the quota after the run created an index entry
\* and wrote a record for a link with no character id.
C30_Witness ==
  /\ pc \in {"cards", "related"}
  /\ EntriesCreated >= 1
  /\ UnknownSaves >= 1
  /\ new_cards_saved = EntriesCreated + UnknownSaves

(* --------------------- record files and index entry -------------------- *)
\* The index a run started now would load, and the folder of the record in hand.
PersistedIndex == ReadBack(indexFile)
RecordFolder == FolderName(metadata.display_name, metadata.character_id)

\* The three record files of a folder are on disk: PAGE_TEXT.txt (files),
\* METADATA.json and ATTRIBUTION.txt (documents).
RecordFilesWritten(folder) == folder \in files /\ folder \in documents

\* The writer is between the record files and the completed index write.
BetweenRecordAndIndex == pc \in {"save_index", "save_write"}

\* C27: every id of the persisted index has its JSON document, debug dump and
\* attribution notice on disk, and they were there before the write that put
\* the id into the file; between the record files and the index write the id
\* is not in the persisted index, so a run started from that disk state does
\* not find the id in its seen-set and opens the card again.
C27_RecordFilesBeforeIndexEntry ==
  /\ [](\A k \in DOMAIN PersistedIndex :
          RecordFilesWritten(PersistedIndex[k].folder))
  /\ [][\A k \in DOMAIN ReadBack(indexFile') \ DOMAIN PersistedIndex :
          RecordFilesWritten(ReadBack(indexFile')[k].folder)]_vars
  /\ [](BetweenRecordAndIndex =>
          /\ RecordFilesWritten(RecordFolder)
          /\ metadata.character_id \notin DOMAIN PersistedIndex
          /\ load_index(indexFile).isDict
          /\ ~AlreadySeen(metadata.character_id, InitialSeen(PersistedIndex)))

\* The record files of a new id are written and the index file still holds
\* only the entries of earlier runs.
C27_Witness ==
  /\ pc = "save_index"
  /\ RecordFilesWritten(RecordFolder)
  /\ DOMAIN PersistedIndex # {}
  /\ metadata.character_id \notin DOMAIN PersistedIndex
  /\ metadata.character_id \in DOMAIN index_data

(* ================== build_next_index_url on its own ==================== *)
\* Query parameters of an index URL: a page that is an integer (with or without
\* a sign), a word or blank, and two other parameters.
QueryParams ==
  { <<"page", <<"2">> >>, <<"page", <<"9">> >>, <<"page", <<"-", "1">> >>,
    <<"page", <<"x">> >>, <<"page", <<>> >>,
    <<"sort", <<"open_at">> >>, <<"sort", <<"2">> >>, <<"q", <<"x">> >> }

UrlInputs ==
  { [path |-> "/cards", query |-> q] : q \in SeqsUpTo(QueryParams, MaxParams) }

UrlInit ==
  /\ CrawlIdle
  /\ fn_pc = "input"
  /\ fn_arg \in UrlInputs
  /\ fn_out = <<>>

\* Line 1312: next_index_url = build_next_index_url(current_index_url).
BuildNextIndexUrl ==
  /\ fn_pc = "input"
  /\ fn_out' = build_next_index_url(fn_arg)
  /\ fn_pc' = "next_url"
  /\ UNCHANGED <<fn_arg, crawlVars>>

UrlNext == BuildNextIndexUrl

UrlSpec == UrlInit /\ [][UrlNext]_vars

\* The parameters of a query other than page, in their order.
RECURSIVE OtherParams(_)
OtherParams(query) ==
  IF Len(query) = 0 THEN <<>>
  ELSE IF query[Len(query)][1] = "page"
       THEN OtherParams(SubSeq(query, 1, Len(query) - 1))
       ELSE Append(OtherParams(SubSeq(query, 1, Len(query) - 1)), query[Len(query)])

\* The values the page parameter has in a query, in their order.
RECURSIVE PageValues(_)
PageValues(query) ==
  IF Len(query) = 0 THEN <<>>
  ELSE IF query[Len(query)][1] = "page"
       THEN Append(PageValues(SubSeq(query, 1, Len(query) - 1)), query[Len(query)][2])
       ELSE PageValues(SubSeq(query, 1, Len(query) - 1))

NoKeyTwice(query) ==
  \A i, j \in 1..Len(query) : query[i][1] = query[j][1] => i = j

\* For every URL the result differs from the input, holds the page parameter
\* once, set to the integer the (last) page value stands for plus one, or to 2
\* when there is none or it is not an integer, and keeps the path.
NextUrlNeverInput ==
  fn_pc = "next_url" =>
    LET pages == PageValues(fn_arg.query)
        current == IF Len(pages) = 0 THEN <<>> ELSE pages[Len(pages)]
    IN /\ fn_out # fn_arg
       /\ fn_out.path = fn_arg.path
       /\ PageValues(fn_out.query) =
            << IF page_is_int(current) THEN page_str(page_int(current) + 1)
               ELSE <<"2">> >>

\* For every URL the other parameters of the result are those of the input.
EveryOtherParameterKept ==
  fn_pc = "next_url" => OtherParams(fn_out.query) = OtherParams(fn_arg.query)

\* The other parameters are kept when no key occurs twice in the query.
OtherParametersKeptWhenKeysDiffer ==
  fn_pc = "next_url" /\ NoKeyTwice(fn_arg.query) =>
    OtherParams(fn_out.query) = OtherParams(fn_arg.query)

(* -------------------------- how the crawl ends -------------------------- *)
\* main() has ended: the while loop was left, or an exception left main().
RunEnded == pc \in {"done", "fatal", "scrape_raised", "format_raised"}

\* The run ended at the quota (lines 1198, 1309), at the page ceiling (line
\* 1197) or at the timeout of an index page (lines 1207-1209).
EndedByLimit ==
  \/ QuotaReached(new_cards_saved)
  \/ ~PagesLeft(pages_processed)
  \/ timed_out /\ opened = NoUrl

\* C29: the next index URL is never the current one (page plus one, or 2, the
\* other parameters kept), the index URLs rendered in a run are pairwise
\* distinct, and the crawl ends only by quota, page ceiling or the timeout of
\* an index page.
C29_NextUrlDiffersRunEndsByLimit ==
  /\ build_next_index_url(current_index_url) # current_index_url
  /\ OtherParams(build_next_index_url(current_index_url).query)
       = OtherParams(current_index_url.query)
  /\ PageValues(current_index_url.query)
       = IF pages_processed = 0 THEN <<>> ELSE <<IntToStr(pages_processed + 1)>>
  /\ Cardinality(indexRequested) = indexRenders
  /\ RunEnded => EndedByLimit

\* What holds of the run: the URLs the crawl passes are stepped as C29 says,
\* the index URLs rendered are pairwise distinct, and the while loop is left
\* only by quota, page ceiling or the timeout of an index page.
IndexUrlsDistinctDoneByLimit ==
  /\ build_next_index_url(current_index_url) # current_index_url
  /\ OtherParams(build_next_index_url(current_index_url).query)
       = OtherParams(current_index_url.query)
  /\ PageValues(current_index_url.query)
       = IF pages_processed = 0 THEN <<>> ELSE <<IntToStr(pages_processed + 1)>>
  /\ Cardinality(indexRequested) = indexRenders
  /\ pc = "done" => EndedByLimit

(* ------------------------------ termination ----------------------------- *)
\* C28: every run of the crawl, whatever the index pages hold, reaches Done
\* after finitely many steps, each page render returning or timing out.
C28_EveryRunReachesDone == <>(pc = "done")

\* Every run ends after finitely many steps: in Done, or where an exception
\* left main().
EveryRunEnds == <>RunEnded

\* A run that no exception leaves reaches Done.
RunReachesDoneUnlessItRaises ==
  <>(pc \in {"fatal", "scrape_raised", "format_raised"}) \/ <>(pc = "done")

\* C10's case never occurs: the next index URL always differs from the current
\* one, so neither "stop" branch of lines 1233 and 1313 is taken.
NextIndexUrlDiffers ==
  build_next_index_url(current_index_url) # current_index_url

====
